---- MODULE Spec2Model ----
(***************************************************************************)
(* Model of the natural-language-to-SQL pipeline of rag-chat-n8n:          *)
(* the validators (src/utils/validators.ts), the chat controller           *)
(* (src/controllers/chat.controller.ts), the n8n executor client, the      *)
(* OpenAI client, the audit writer and the error middleware.               *)
(*                                                                         *)
(* Text is modelled by TLA+ strings; a character is a string of length 1.  *)
(***************************************************************************)
EXTENDS Integers, Sequences, FiniteSets, TLC

(***************************************************************************)
(* String primitives (JavaScript String / RegExp semantics, ASCII range).  *)
(***************************************************************************)

\* s.charAt(i - 1)
CharAt(s, i) == SubSeq(s, i, i)

\* the characters matched by \s and stripped by String.prototype.trim
WS == {" ", "\t", "\n", "\r"}

UpMap ==
  [a |-> "A", b |-> "B", c |-> "C", d |-> "D", e |-> "E", f |-> "F", g |-> "G",
   h |-> "H", i |-> "I", j |-> "J", k |-> "K", l |-> "L", m |-> "M", n |-> "N",
   o |-> "O", p |-> "P", q |-> "Q", r |-> "R", s |-> "S", t |-> "T", u |-> "U",
   v |-> "V", w |-> "W", x |-> "X", y |-> "Y", z |-> "Z"]

\* c.toUpperCase() for one character
UpperChar(c) == IF c \in DOMAIN UpMap THEN UpMap[c] ELSE c

\* s.substring(i - 1).startsWith(p)
StartsWithAt(s, i, p) ==
  /\ i >= 1
  /\ i + Len(p) - 1 <= Len(s)
  /\ SubSeq(s, i, i + Len(p) - 1) = p

\* s.startsWith(p)
StartsWith(s, p) == StartsWithAt(s, 1, p)

\* s.endsWith(p)
EndsWith(s, p) == StartsWithAt(s, Len(s) - Len(p) + 1, p)

\* s.includes(p)
Includes(s, p) == \E i \in 1..(Len(s) - Len(p) + 1) : StartsWithAt(s, i, p)

\* s.substring(i - 1).toUpperCase().startsWith(P), P in upper case
StartsWithAtI(s, i, P) ==
  /\ i >= 1
  /\ i + Len(P) - 1 <= Len(s)
  /\ \A k \in 1..Len(P) : UpperChar(CharAt(s, i + k - 1)) = CharAt(P, k)

\* s.trim()
Trim(s) ==
  IF \A i \in 1..Len(s) : CharAt(s, i) \in WS THEN ""
  ELSE SubSeq(s,
              CHOOSE i \in 1..Len(s) :
                /\ CharAt(s, i) \notin WS
                /\ \A j \in 1..(i - 1) : CharAt(s, j) \in WS,
              CHOOSE i \in 1..Len(s) :
                /\ CharAt(s, i) \notin WS
                /\ \A j \in (i + 1)..Len(s) : CharAt(s, j) \in WS)

\* the number of occurrences of the character c in s: (s.match(/c/g) || []).length
CountChar(s, c) == Cardinality({i \in 1..Len(s) : CharAt(s, i) = c})

\* the length of the longest run of \s characters of s that starts at index i
WsRun(s, i) ==
  LET stops == {j \in i..Len(s) : CharAt(s, j) \notin WS}
  IN  IF stops = {} THEN (IF i > Len(s) THEN 0 ELSE Len(s) - i + 1)
      ELSE (CHOOSE j \in stops : \A k \in stops : j <= k) - i

\* s repeated n times
RECURSIVE Repeat(_, _)
Repeat(s, n) ==
  IF n = 0 THEN ""
  ELSE IF n % 2 = 0 THEN Repeat(s \o s, n \div 2)
  ELSE s \o Repeat(s, n - 1)

(***************************************************************************)
(* src/utils/validators.ts                                                 *)
(***************************************************************************)

\* dangerousPatterns without its first entry
dangerousPatternsWithoutDrop ==
  << [head |-> "DELETE",   ws |-> "plus", tail |-> ""],
     [head |-> "TRUNCATE", ws |-> "plus", tail |-> ""],
     [head |-> "INSERT",   ws |-> "plus", tail |-> ""],
     [head |-> "UPDATE",   ws |-> "plus", tail |-> ""],
     [head |-> "ALTER",    ws |-> "plus", tail |-> ""],
     [head |-> "CREATE",   ws |-> "plus", tail |-> ""],
     [head |-> "GRANT",    ws |-> "plus", tail |-> ""],
     [head |-> "REVOKE",   ws |-> "plus", tail |-> ""],
     [head |-> "RENAME",   ws |-> "plus", tail |-> ""],
     [head |-> "LOAD",     ws |-> "plus", tail |-> "DATA"],
     [head |-> "INTO",     ws |-> "plus", tail |-> "OUTFILE"],
     [head |-> "INFORMATION_SCHEMA", ws |-> "none", tail |-> ""],
     [head |-> "SLEEP",     ws |-> "star", tail |-> "("],
     [head |-> "BENCHMARK", ws |-> "star", tail |-> "("],
     [head |-> "SHUTDOWN",  ws |-> "none", tail |-> ""] >>

\* the regular expressions of dangerousPatterns, in list order: the keyword
\* head (matched case-insensitively), then \s+ ("plus"), \s* ("star") or
\* nothing ("none"), then the literal tail
dangerousPatterns ==
  << [head |-> "DROP",     ws |-> "plus", tail |-> ""],
     [head |-> "DELETE",   ws |-> "plus", tail |-> ""],
     [head |-> "TRUNCATE", ws |-> "plus", tail |-> ""],
     [head |-> "INSERT",   ws |-> "plus", tail |-> ""],
     [head |-> "UPDATE",   ws |-> "plus", tail |-> ""],
     [head |-> "ALTER",    ws |-> "plus", tail |-> ""],
     [head |-> "CREATE",   ws |-> "plus", tail |-> ""],
     [head |-> "GRANT",    ws |-> "plus", tail |-> ""],
     [head |-> "REVOKE",   ws |-> "plus", tail |-> ""],
     [head |-> "RENAME",   ws |-> "plus", tail |-> ""],
     [head |-> "LOAD",     ws |-> "plus", tail |-> "DATA"],
     [head |-> "INTO",     ws |-> "plus", tail |-> "OUTFILE"],
     [head |-> "INFORMATION_SCHEMA", ws |-> "none", tail |-> ""],
     [head |-> "SLEEP",     ws |-> "star", tail |-> "("],
     [head |-> "BENCHMARK", ws |-> "star", tail |-> "("],
     [head |-> "SHUTDOWN",  ws |-> "none", tail |-> ""] >>

\* PatternMatchLen without the i flag: the keyword is matched in upper case only
PatternMatchLenCaseSensitive(s, i, p) ==
  IF ~StartsWithAt(s, i, p.head) THEN 0
  ELSE LET j == i + Len(p.head)
           m == IF p.ws = "none" THEN 0 ELSE WsRun(s, j)
       IN  IF p.ws = "plus" /\ m = 0 THEN 0
           ELSE IF StartsWithAt(s, j + m, p.tail)
                THEN Len(p.head) + m + Len(p.tail)
                ELSE 0

\* the length of the match of pattern p that starts at index i of s, or 0 when
\* p does not match there (\s+ and \s* are greedy and no tail starts with \s)
PatternMatchLen(s, i, p) ==
  IF ~StartsWithAtI(s, i, p.head) THEN 0
  ELSE LET j == i + Len(p.head)
           m == IF p.ws = "none" THEN 0 ELSE WsRun(s, j)
       IN  IF p.ws = "plus" /\ m = 0 THEN 0
           ELSE IF StartsWithAtI(s, j + m, p.tail)
                THEN Len(p.head) + m + Len(p.tail)
                ELSE 0

\* pattern.test(sql)
PatternTest(s, p) == \E i \in 1..Len(s) : PatternMatchLen(s, i, p) > 0

\* sql.match(pattern)[0]: the leftmost match
PatternMatch(s, p) ==
  SubSeq(s,
         CHOOSE i \in 1..Len(s) :
           /\ PatternMatchLen(s, i, p) > 0
           /\ \A j \in 1..(i - 1) : PatternMatchLen(s, j, p) = 0,
         CHOOSE e \in 1..Len(s) :
           \E i \in 1..e :
             /\ PatternMatchLen(s, i, p) > 0
             /\ \A j \in 1..(i - 1) : PatternMatchLen(s, j, p) = 0
             /\ e = i + PatternMatchLen(s, i, p) - 1)

MaxSqlLength == 2000

\* NotSelect with includes in the place of startsWith
NotSelectAnywhere(sql) == ~(\E i \in 1..Len(sql) : StartsWithAtI(sql, i, "SELECT"))

\* line 42: !sql.trim().toUpperCase().startsWith('SELECT')
NotSelect(sql) == ~StartsWithAtI(Trim(sql), 1, "SELECT")

\* lines 47-50: the counts of ( and ) differ
UnbalancedParens(sql) == CountChar(sql, "(") # CountChar(sql, ")")

\* line 55: sql.includes(';') && !sql.trim().endsWith(';')
SemicolonCheck(sql) == Includes(sql, ";") /\ ~EndsWith(Trim(sql), ";")

\* line 60: sql.includes('--') || sql.includes('/*')
HasComment(sql) == Includes(sql, "--") \/ Includes(sql, "/*")

\* TooLong with the limit itself counted as too long
TooLongAtLimit(sql) == Len(sql) >= MaxSqlLength

\* line 65: sql.length > 2000
TooLong(sql) == Len(sql) > MaxSqlLength

\* lines 34-39: the loop over dangerousPatterns from entry n on: the text
\* matched by the first pattern that matches sql, or "" when none does
RECURSIVE DangerousMatch(_, _)
DangerousMatch(sql, n) ==
  IF n > Len(dangerousPatterns) THEN ""
  ELSE IF PatternTest(sql, dangerousPatterns[n])
  THEN PatternMatch(sql, dangerousPatterns[n])
  ELSE DangerousMatch(sql, n + 1)

\* validateSqlQuery: the message of the Error it throws, or ok
validateSqlQuery(sql) ==
  IF DangerousMatch(sql, 1) # ""
  THEN [ok |-> FALSE,
        error |-> "SQL validation failed: Potentially dangerous operation detected ("
                  \o DangerousMatch(sql, 1) \o ")"]
  ELSE IF NotSelect(sql)
  THEN [ok |-> FALSE, error |-> "SQL validation failed: Query must start with SELECT"]
  ELSE IF UnbalancedParens(sql)
  THEN [ok |-> FALSE, error |-> "SQL validation failed: Unbalanced parentheses"]
  ELSE IF SemicolonCheck(sql)
  THEN [ok |-> FALSE, error |-> "SQL validation failed: Multiple statements detected"]
  ELSE IF HasComment(sql)
  THEN [ok |-> FALSE, error |-> "SQL validation failed: Comments are not allowed"]
  ELSE IF TooLong(sql)
  THEN [ok |-> FALSE, error |-> "SQL validation failed: Query too long"]
  ELSE [ok |-> TRUE, error |-> ""]

DefaultLimit == 100

\* /LIMIT\s+\d+/i.test(sql)
Digits == {"0", "1", "2", "3", "4", "5", "6", "7", "8", "9"}

\* HasLimit matching the upper-case spelling only: /LIMIT\s+\d+/
HasLimitUpperCase(sql) ==
  \E i \in 1..Len(sql) :
    /\ StartsWithAt(sql, i, "LIMIT")
    /\ WsRun(sql, i + 5) >= 1
    /\ i + 5 + WsRun(sql, i + 5) <= Len(sql)
    /\ CharAt(sql, i + 5 + WsRun(sql, i + 5)) \in Digits

HasLimit(sql) ==
  \E i \in 1..Len(sql) :
    /\ StartsWithAtI(sql, i, "LIMIT")
    /\ WsRun(sql, i + 5) >= 1
    /\ i + 5 + WsRun(sql, i + 5) <= Len(sql)
    /\ CharAt(sql, i + 5 + WsRun(sql, i + 5)) \in Digits

\* ensureQueryLimit returning every statement as it is
ensureQueryLimitAbsent(sql) == sql

\* ensureQueryLimit(sql) with the default limit of 100
ensureQueryLimit(sql) ==
  IF HasLimit(sql) THEN sql
  ELSE LET trimmedSql == Trim(sql)
       IN  IF EndsWith(trimmedSql, ";")
           THEN SubSeq(trimmedSql, 1, Len(trimmedSql) - 1) \o " LIMIT 100;"
           ELSE trimmedSql \o " LIMIT 100"

MaxMessageLength == 1000

\* a request field as JSON delivers it: t is the JavaScript type, v the text
\* (of a string) or a rendering of the value (of anything else)
JsString(s)  == [t |-> "string", v |-> s]
JsUndefined  == [t |-> "undefined", v |-> ""]
JsNumber(n)  == [t |-> "number", v |-> n]

\* !x for a request field
Falsy(x) == x.t = "undefined" \/ (x.t = "string" /\ x.v = "") \/ (x.t = "number" /\ x.v = "0")

\* validateChatMessage with the length bound off by one
validateChatMessageOffByOne(message) ==
  IF Falsy(message) \/ message.t # "string"
  THEN [ok |-> FALSE, error |-> "Message is required and must be a string"]
  ELSE IF Len(Trim(message.v)) = 0
  THEN [ok |-> FALSE, error |-> "Message cannot be empty"]
  ELSE IF Len(message.v) >= MaxMessageLength
  THEN [ok |-> FALSE, error |-> "Message is too long (maximum 1000 characters)"]
  ELSE [ok |-> TRUE, error |-> ""]

\* validateChatMessage: the message of the Error it throws, or ok
validateChatMessage(message) ==
  IF Falsy(message) \/ message.t # "string"
  THEN [ok |-> FALSE, error |-> "Message is required and must be a string"]
  ELSE IF Len(Trim(message.v)) = 0
  THEN [ok |-> FALSE, error |-> "Message cannot be empty"]
  ELSE IF Len(message.v) > MaxMessageLength
  THEN [ok |-> FALSE, error |-> "Message is too long (maximum 1000 characters)"]
  ELSE [ok |-> TRUE, error |-> ""]

\* /^\d{4}-\d{2}-\d{2}T\d{2}:\d{2}:\d{2}/.test(value)
TimestampShape == "dddd-dd-ddTdd:dd:dd"

IsTimestampShaped(value) ==
  /\ Len(value) >= Len(TimestampShape)
  /\ \A i \in 1..Len(TimestampShape) :
       IF CharAt(TimestampShape, i) = "d"
       THEN CharAt(value, i) \in Digits
       ELSE CharAt(value, i) = CharAt(TimestampShape, i)

\* the number written by two decimal digits at index i of s
DigitVal == [c \in Digits |-> CHOOSE n \in 0..9 : CharAt("0123456789", n + 1) = c]
TwoDigits(s, i) == 10 * DigitVal[CharAt(s, i)] + DigitVal[CharAt(s, i + 1)]

\* the number of days of the month of a timestamp-shaped text
DaysInMonth(value) ==
  LET year == 100 * TwoDigits(value, 1) + TwoDigits(value, 3)
      month == TwoDigits(value, 6)
      leap == (year % 4 = 0 /\ year % 100 # 0) \/ year % 400 = 0
  IN  IF month = 2 THEN (IF leap THEN 29 ELSE 28)
      ELSE IF month \in {4, 6, 9, 11} THEN 30
      ELSE 31

\* new Date(value) for a timestamp-shaped text whose zone designator is Z (UTC),
\* with or without milliseconds: the text of toISOString(), or "Invalid Date"
\* when the text does not denote a date
ParseUtcDate(value) ==
  LET rest == SubSeq(value, 20, Len(value))
      zoneOk == \/ rest = "Z"
                \/ /\ Len(rest) = 5
                   /\ CharAt(rest, 1) = "." /\ CharAt(rest, 5) = "Z"
                   /\ \A i \in 2..4 : CharAt(rest, i) \in Digits
      fieldsOk == /\ TwoDigits(value, 6) \in 1..12
                  /\ TwoDigits(value, 9) \in 1..DaysInMonth(value)
                  /\ TwoDigits(value, 12) \in 0..23
                  /\ TwoDigits(value, 15) \in 0..59
                  /\ TwoDigits(value, 18) \in 0..59
      millis == IF Len(rest) = 5 THEN SubSeq(rest, 2, 4) ELSE "000"
  IN  IF zoneOk /\ fieldsOk
      THEN SubSeq(value, 1, 19) \o "." \o millis \o "Z"
      ELSE "Invalid Date"

\* formatDate(date): toISOString() with T replaced by a space, cut to 19 characters
formatDate(iso) ==
  IF iso = "Invalid Date" THEN "Invalid Date"
  ELSE SubSeq(iso, 1, 10) \o " " \o SubSeq(iso, 12, 19)

\* the replacement formatTimestamps makes of one value of a row
FormatValue(value) ==
  IF value.t = "string" /\ IsTimestampShaped(value.v)
  THEN JsString(formatDate(ParseUtcDate(value.v)))
  ELSE value

\* formatTimestamps(results): a copy of every row with its timestamps replaced
formatTimestamps(results) ==
  [i \in 1..Len(results) |->
     [key \in DOMAIN results[i] |-> FormatValue(results[i][key])]]

(***************************************************************************)
(* OpenAIService (openai.service.ts)                                       *)
(***************************************************************************)

\* the grave accent (U+0060), which a TLA+ string cannot hold, is written ^
Backtick == "^"
Fence == Backtick \o Backtick \o Backtick

\* the first index >= from at which p occurs in s, or 0
IndexOf(s, p, from) ==
  LET hits == {i \in from..(Len(s) - Len(p) + 1) : StartsWithAt(s, i, p)}
  IN  IF hits = {} THEN 0 ELSE CHOOSE i \in hits : \A j \in hits : i <= j

\* response.match(/<opener>\s*([\s\S]*?)\s*<fence>/)[1].trim(), or the empty
\* text without a match
FencedBlock(response, opener) ==
  LET i == IndexOf(response, opener, 1)
      j == IF i = 0 THEN 0 ELSE IndexOf(response, Fence, i + Len(opener))
  IN  IF j = 0 THEN "" ELSE Trim(SubSeq(response, i + Len(opener), j - 1))

\* response.split(newline)
RECURSIVE SplitLines(_)
SplitLines(s) ==
  LET k == IndexOf(s, "\n", 1)
  IN  IF k = 0 THEN << s >>
      ELSE << SubSeq(s, 1, k - 1) >> \o SplitLines(SubSeq(s, k + 1, Len(s)))

\* lines.join(newline)
RECURSIVE JoinLines(_)
JoinLines(lines) ==
  IF Len(lines) = 0 THEN ""
  ELSE IF Len(lines) = 1 THEN lines[1]
  ELSE lines[1] \o "\n" \o JoinLines(Tail(lines))

ProseLeadIns == {"Here", "This", "The", "I", "Note"}

extractSqlFromResponse(response) ==
  IF FencedBlock(response, Fence \o "sql") # ""
  THEN FencedBlock(response, Fence \o "sql")
  ELSE IF FencedBlock(response, Fence) # "" THEN FencedBlock(response, Fence)
  ELSE Trim(JoinLines(SelectSeq(SplitLines(response),
                 LAMBDA line : \A w \in ProseLeadIns : ~StartsWith(line, w))))

\* JSON.stringify of a value of a row
JsonValue(x) ==
  IF x.t = "number" THEN x.v
  ELSE IF x.t = "string" THEN "\"" \o x.v \o "\""
  ELSE "null"

\* JSON.stringify(row, null, 2) of a non-empty object at nesting depth 1; a
\* row is the sequence of its [key, value] members in insertion order
RECURSIVE JsonMembers(_)
JsonMembers(row) ==
  IF Len(row) = 0 THEN ""
  ELSE "    \"" \o row[1].key \o "\": " \o JsonValue(row[1].value)
       \o (IF Len(row) = 1 THEN "\n" ELSE ",\n" \o JsonMembers(Tail(row)))

JsonObject(row) == IF Len(row) = 0 THEN "  {}" ELSE "  {\n" \o JsonMembers(row) \o "  }"

RECURSIVE JsonElements(_)
JsonElements(results) ==
  IF Len(results) = 1 THEN JsonObject(results[1]) \o "\n"
  ELSE JsonObject(results[1]) \o ",\n" \o JsonElements(Tail(results))

\* JSON.stringify(results, null, 2)
JsonStringify(results) ==
  IF Len(results) = 0 THEN "[]" ELSE "[\n" \o JsonElements(results) \o "]"

\* the test of line 319 with ten rows counted as a large result set
IsSmallResultSetBelowTen(results) == Len(results) < 10

\* line 319: results.length <= 10
IsSmallResultSet(results) == Len(results) <= 10

\* formatQueryResults(results), lines 312-332
formatQueryResults(results) ==
  IF Len(results) = 0 THEN "No results found."
  ELSE IF IsSmallResultSet(results) THEN JsonStringify(results)
  ELSE ToString(Len(results)) \o " rows returned. Here is a sample of the first 5 rows:\n      \n"
       \o JsonStringify(SubSeq(results, 1, 5))

\* generateSql, given what the chat-completion call did: reply.threw with the
\* message of the API error, or reply.content
generateSql(reply) ==
  LET sqlQuery == extractSqlFromResponse(reply.content)
      inner == IF reply.threw THEN reply.message
               ELSE "Failed to generate valid SQL query"
  IN  IF reply.threw \/ sqlQuery = ""
      THEN [threw |-> TRUE, error |-> "Failed to generate SQL: " \o inner, sql |-> ""]
      ELSE [threw |-> FALSE, error |-> "", sql |-> sqlQuery]

\* generateResponse, given what the chat-completion call did
generateResponse(reply) ==
  IF reply.threw
  THEN [threw |-> TRUE, error |-> "Failed to generate response: " \o reply.message,
        answer |-> ""]
  ELSE [threw |-> FALSE, error |-> "", answer |-> reply.content]

(***************************************************************************)
(* N8nService (n8n.service.ts)                                             *)
(***************************************************************************)

\* config.n8n.webhookUrl
WebhookUrl == "http://n8n:5678/webhook/execute-query"

JsArray(rows) == [t |-> "array", v |-> "", rows |-> rows]
NoResults     == [t |-> "undefined", v |-> "", rows |-> << >>]
TextResults(s) == [t |-> "string", v |-> s, rows |-> << >>]

\* saveResultsAsJson(data, requestId): the file it writes when the file system
\* accepts the write (fsOk), or the error it rethrows.  requestId.substring
\* exists only on a string; ts is the clock reading used in the file name.
saveResultsAsJson(data, requestId, fsOk, ts) ==
  IF ~Falsy(requestId) /\ requestId.t # "string"
  THEN [threw |-> TRUE, filename |-> "", data |-> data]
  ELSE LET idPart == IF Falsy(requestId) THEN ""
                     ELSE "_" \o SubSeq(requestId.v, 1, IF Len(requestId.v) < 8
                                                       THEN Len(requestId.v) ELSE 8)
           filename == "query_" \o ts \o idPart \o ".json"
       IN  IF fsOk THEN [threw |-> FALSE, filename |-> filename, data |-> data]
           ELSE [threw |-> TRUE, filename |-> "", data |-> data]

\* saveResultsAsJson got as far as fs.mkdir / fs.writeFile (lines 249-252) and
\* the file system refused
WriteRefused(requestId, fsOk) ==
  ~fsOk /\ (Falsy(requestId) \/ requestId.t = "string")

\* the Error thrown in the inner try of executeQuery for a failed axios.post
AxiosFailure(reply) ==
  IF reply.kind = "refused"
  THEN "Could not connect to n8n at " \o WebhookUrl \o ". Make sure n8n is running."
  ELSE IF reply.kind = "timeout"
  THEN "Connection to n8n timed out. The server at " \o WebhookUrl \o " is not responding."
  ELSE IF reply.kind = "status"
  THEN "n8n returned error status " \o reply.detail
  ELSE "Failed to communicate with n8n: " \o reply.detail

\* the acknowledgement test with another spelling of the message
IsAcknowledgementLowerCase(data) == data.message = "workflow was started"

\* line 167: response.data.message === "Workflow was started"
IsAcknowledgement(data) == data.message = "Workflow was started"

\* executeQuery(query), given what the webhook call did (reply), the elapsed
\* time t and what the file system does: the result or the Error thrown, and
\* the file written, if any
executeQuery(query, reply, t, fsOk, ts) ==
  LET fail(msg) == [threw |-> TRUE,
                    error |-> "Failed to execute query via n8n: " \o msg,
                    results |-> << >>, rowCount |-> 0, executionTime |-> t,
                    asynchronous |-> FALSE, file |-> << >>]
      data == reply.data
  IN
  IF Trim(WebhookUrl) = ""
  THEN fail("n8n webhook URL is missing or empty. Please check your .env configuration.")
  ELSE IF reply.kind # "data" THEN fail(AxiosFailure(reply))
  ELSE IF data.falsy THEN fail("n8n returned an empty response")
  ELSE IF IsAcknowledgement(data)
  THEN [threw |-> FALSE, error |-> "", results |-> << >>, rowCount |-> 0,
        executionTime |-> t, asynchronous |-> TRUE, file |-> << >>]
  ELSE IF Falsy(data.results)
  THEN fail("n8n response is missing the 'results' field: " \o data.json)
  ELSE IF data.results.t # "array"
  THEN fail("n8n 'results' field is not an array: " \o data.results.t)
  ELSE LET saved == saveResultsAsJson(query, data.results, fsOk, ts)
       IN  [threw |-> FALSE, error |-> "", results |-> data.results.rows,
            rowCount |-> Len(data.results.rows), executionTime |-> t,
            asynchronous |-> FALSE,
            file |-> IF saved.threw THEN << >> ELSE << saved >>]

(***************************************************************************)
(* DatabaseService.logQuery (database.service.ts)                          *)
(***************************************************************************)

\* SQL NULL in a numeric column of audit_logs
Null == -1

\* x || null
OrNull(x) == IF x = 0 THEN Null ELSE x

\* an AuditLogEntry; a field the caller leaves out is undefined, written here as
\* 0 (a number) or "" (a text), which || null treats alike
AuditLogEntry(queryText, userInput, executionTime, rowCount, responseStatus, errorMessage) ==
  [queryText |-> queryText, userInput |-> userInput, executionTime |-> executionTime,
   rowCount |-> rowCount, responseStatus |-> responseStatus, errorMessage |-> errorMessage]

\* logQuery without its catch: the failure of the INSERT reaches the caller
logQueryRethrows(entry, insertOk) ==
  [row |-> [query_text |-> entry.queryText,
            user_input |-> entry.userInput,
            execution_time |-> OrNull(entry.executionTime),
            row_count |-> OrNull(entry.rowCount),
            response_status |-> entry.responseStatus,
            error_message |-> entry.errorMessage,
            inserted |-> insertOk],
   threw |-> ~insertOk,
   error |-> "Audit insert failed"]

\* logQuery(entry): the INSERT it attempts, with inserted telling whether the
\* database accepted it, and whether logQuery itself threw (it never does)
logQuery(entry, insertOk) ==
  [row |-> [query_text |-> entry.queryText,
            user_input |-> entry.userInput,
            execution_time |-> OrNull(entry.executionTime),
            row_count |-> OrNull(entry.rowCount),
            response_status |-> entry.responseStatus,
            error_message |-> entry.errorMessage,
            inserted |-> insertOk],
   threw |-> FALSE,
   error |-> ""]

(***************************************************************************)
(* error.middleware.ts                                                     *)
(***************************************************************************)

ERROR_CODES ==
  [VALIDATION_ERROR |-> 400, AUTHENTICATION_ERROR |-> 401, AUTHORIZATION_ERROR |-> 403,
   NOT_FOUND |-> 404, CONFLICT |-> 409, RATE_LIMIT |-> 429, INTERNAL_ERROR |-> 500,
   DATABASE_ERROR |-> 503, SERVICE_UNAVAILABLE |-> 503, TIMEOUT |-> 504]

\* new AppError(message, errorCode)
AppError(message, errorCode) ==
  [app |-> TRUE, message |-> message, errorCode |-> errorCode,
   statusCode |-> IF errorCode \in DOMAIN ERROR_CODES THEN ERROR_CODES[errorCode] ELSE 500]

\* new Error(message)
PlainError(message) ==
  [app |-> FALSE, message |-> message, errorCode |-> "", statusCode |-> 0]

NoError == [app |-> FALSE, message |-> "", errorCode |-> "", statusCode |-> 0]

\* the catch of asyncHandler: what it hands to next() while no response has
\* been sent (the name of a plain Error is never TimeoutError)
asyncHandler(error) ==
  IF error.app THEN error
  ELSE AppError(IF error.message = "" THEN "An unexpected error occurred" ELSE error.message,
                "INTERNAL_ERROR")

\* errorHandlerMiddleware for an AppError: the status and the JSON body sent
\* (the stack trace that development mode adds is left out)
errorHandlerMiddleware(err, env) ==
  [status |-> err.statusCode,
   body |-> [status |-> err.statusCode, message |-> err.message, errorCode |-> err.errorCode,
             details |->
               IF env = "production" THEN ""
               ELSE IF err.errorCode = "DATABASE_ERROR"
                    THEN "Check database connection and n8n status"
               ELSE IF err.errorCode = "SERVICE_UNAVAILABLE"
                    THEN "Check if OpenAI API is accessible and key is valid"
               ELSE IF err.errorCode = "TIMEOUT"
                    THEN "Request took too long. Try a simpler query or check service status"
               ELSE ""]]

(***************************************************************************)
(* chat.controller.ts: the classification in the catch of processChat      *)
(***************************************************************************)

\* the AppError thrown at the end of the catch block for the caught message
ClassifyError(errorMessage) ==
  IF Includes(errorMessage, "OpenAI")
  THEN AppError("Error connecting to AI service. Please try again later.",
                "SERVICE_UNAVAILABLE")
  ELSE IF Includes(errorMessage, "n8n") \/ Includes(errorMessage, "query")
  THEN AppError("Error executing database query. The database service may be unavailable.",
                "DATABASE_ERROR")
  ELSE IF Includes(errorMessage, "timeout") \/ Includes(errorMessage, "timed out")
  THEN AppError("The request took too long to process. Please try a simpler query.",
                "TIMEOUT")
  ELSE AppError("Failed to process your request", "INTERNAL_ERROR")

(***************************************************************************)
(* The inputs of the model                                                 *)
(***************************************************************************)

\* SchemaService.refreshIntervalMs
RefreshIntervalMs == 3600000

\* the largest number of clock ticks (ms) the model lets pass between two
\* readings of the clock within one request
MaxTick == 1

\* the largest elapsed time (s) the executor call is given
MaxExecutionTime == 1

\* the body.message values of POST /chat
Messages ==
  { JsUndefined, JsNumber("42"), JsString(""), JsString("   "),
    JsString("How many users?"),
    JsString(Repeat("x", MaxMessageLength)),
    JsString(Repeat("x", MaxMessageLength + 1)) }

\* the body.conversationId values of POST /chat
ConversationIds == { JsUndefined, JsString(""), JsString("conv-1") }

\* uuidv4() in processChat
MintedUuid == "6f1c2a9e-minted"

\* req.headers['x-request-id'], set by the request-id middleware of app.ts
RequestId == JsString("0b7d4c1e-52aa-4f0e-9d3b-req")

OracleError(msg) == [threw |-> TRUE, message |-> msg, content |-> ""]
OracleText(text) == [threw |-> FALSE, message |-> "", content |-> text]

\* what the chat-completion call of generateSql may do
SqlReplies ==
  { OracleError("Connection error."),
    OracleError("Request timed out."),
    OracleText(""),
    OracleText("I cannot answer that."),
    OracleText("SELECT * FROM users"),
    OracleText("SELECT * FROM users LIMIT 5;"),
    OracleText(Fence \o "sql\nSELECT id FROM users;\n" \o Fence),
    OracleText("Here is the query:\nSELECT COUNT(*) FROM users"),
    OracleText("DROP TABLE users"),
    OracleText("UPDATE users SET x=1"),
    OracleText("SELECT 1; DROP TABLE users;"),
    OracleText("SELECT 1; SELECT 2;"),
    OracleText("SELECT 1; SELECT 2") }

\* what the chat-completion call of generateResponse may do
SummaryReplies ==
  { OracleError("Connection error."),
    OracleText("There are 2 users."),
    OracleText("") }

\* result sets the executor may return
RowSets ==
  { << >>,
    << [id |-> JsNumber("1"), created_at |-> JsString("2023-10-15T14:30:22.000Z")] >>,
    << [id |-> JsNumber("1"), name |-> JsString("ann")],
       [id |-> JsNumber("2"), name |-> JsString("bob")] >> }

DataReply(message, results, json) ==
  [kind |-> "data", detail |-> "",
   data |-> [falsy |-> FALSE, message |-> message, results |-> results, json |-> json]]

FailedReply(kind, detail) ==
  [kind |-> kind, detail |-> detail,
   data |-> [falsy |-> TRUE, message |-> "", results |-> NoResults, json |-> ""]]

\* what the webhook call of executeQuery may do
ExecutorReplies ==
  { FailedReply("refused", ""),
    FailedReply("timeout", ""),
    FailedReply("status", "500: {\"message\":\"Error in workflow\"}"),
    FailedReply("other", "socket hang up"),
    FailedReply("data", ""),
    DataReply("Workflow was started", NoResults, "{\"message\":\"Workflow was started\"}"),
    DataReply("Workflow was started",
              JsArray(<< [id |-> JsNumber("1"), name |-> JsString("ann")] >>), ""),
    DataReply("", NoResults, "{\"rows\":[]}"),
    DataReply("", TextResults("oops"), "{\"results\":\"oops\"}") }
  \cup { DataReply("", JsArray(rows), "") : rows \in RowSets }

\* the body.query values of POST /query
RawQueries ==
  { JsUndefined, JsNumber("7"), JsString(""),
    JsString("SELECT * FROM users"),
    JsString("SELECT 1; DROP TABLE users;"),
    JsString("SELECT 1; SELECT 2;"),
    JsString("DELETE FROM users"),
    JsString("SELECT (1") }

\* the snapshot that introspection of the connected database assembles
TableNames == << "users", "orders" >>

\* a TableMetadata: columns and relationships stand for the rows read, named by
\* the version of the database they were read at
TableMetadata(name, columns, relationships) ==
  [name |-> name, columns |-> columns, relationships |-> relationships]

\* a DatabaseSchema, and the null of a SchemaService that never refreshed
Snapshot(tables) == [null |-> FALSE, tables |-> tables]
NoSnapshot == [null |-> TRUE, tables |-> << >>]

\* the snapshot read from the database at its version 0
DbSnapshot ==
  Snapshot([i \in 1..Len(TableNames) |-> TableMetadata(TableNames[i], 0, 0)])

\* two decimal digits / three decimal digits of n
DigitOf(n) == CharAt("0123456789", (n % 10) + 1)
Pad2(n) == DigitOf(n \div 10) \o DigitOf(n)
Pad3(n) == DigitOf(n \div 100) \o Pad2(n)

\* new Date(ms).toISOString().replace(/[:.]/g, '-') for a time ms of the first
\* day of the epoch
IsoStamp(ms) ==
  "1970-01-01T" \o Pad2(ms \div 3600000) \o "-" \o Pad2((ms \div 60000) % 60) \o "-"
  \o Pad2((ms \div 1000) % 60) \o "-" \o Pad3(ms % 1000) \o "Z"

(***************************************************************************)
(* State                                                                   *)
(***************************************************************************)

VARIABLES
  kind,                   \* the endpoint of the request: "none", "chat", "query"
  pc,                     \* the position of the request handler
  message,                \* req.body.message
  existingConversationId, \* req.body.conversationId
  conversationId,         \* processChat: conversationId
  query,                  \* executeRawQuery: req.body.query
  generatedSql,           \* processChat: sqlGeneration.sql
  sql,                    \* processChat: sql
  queryExecution,         \* the QueryExecutionResponse of executeQuery
  formattedResults,       \* formatTimestamps(queryExecution.results)
  answer,                 \* naturalLanguage.answer
  err,                    \* the error caught or about to be thrown
  oracleReply,            \* what the latest chat-completion call did
  executorReply,          \* what the latest webhook call did
  response,               \* the HTTP responses sent for the request
  audit,                  \* the INSERTs into audit_logs attempted for the request
  trace,                  \* the collaborator calls made for the request, in order
  dispatched,             \* the statements posted to the n8n webhook
  files,                  \* the JSON artifacts written to query_results
  fsRefused,              \* the file system refused a write made for the request
  schema,                 \* SchemaService.schema
  lastRefreshTime,        \* SchemaService.lastRefreshTime
  now,                    \* the clock (ms since the server started listening)
  nodeEnv,                \* process.env.NODE_ENV
  vin,                    \* the text handed to a validator under test
  vout,                   \* what the validator under test returned
  dbVersion,              \* the version of the data dictionary of the database
  callers,                \* the getSchema calls in progress, one per caller
  callCount,              \* the number of getSchema calls made
  published               \* the number of snapshots published

reqVars == << kind, pc, message, existingConversationId, conversationId, query,
              generatedSql, sql, queryExecution, formattedResults, answer, err,
              oracleReply, executorReply >>
outVars == << response, audit, trace, dispatched, files, fsRefused >>
envVars == << schema, lastRefreshTime, now, nodeEnv >>
testVars == << vin, vout >>
schemaVars == << dbVersion, callers, callCount, published >>
vars == << reqVars, outVars, envVars, testVars, schemaVars >>

\* the callers of getSchema that may be in flight together
Callers == {1, 2}

NoResult == [threw |-> FALSE, error |-> "", schema |-> NoSnapshot]

\* a caller that is not inside getSchema
IdleCaller ==
  [pc |-> "idle", forceRefresh |-> FALSE, names |-> << >>, idx |-> 0, columns |-> 0,
   assembled |-> << >>, result |-> NoResult, issued |-> 0,
   before |-> [schema |-> NoSnapshot, lastRefreshTime |-> 0], publishedAtStart |-> 0,
   started |-> 0]

\* no getSchema call has been made through the callers of the schema model
NoSchemaCalls ==
  /\ dbVersion = 0
  /\ callers = [c \in Callers |-> IdleCaller]
  /\ callCount = 0
  /\ published = 0

NoExecution ==
  [threw |-> FALSE, error |-> "", results |-> << >>, rowCount |-> 0,
   executionTime |-> 0, asynchronous |-> FALSE, file |-> << >>]

\* the server listens once startServer has refreshed the schema
Init ==
  /\ kind = "none"
  /\ pc = "idle"
  /\ message = JsUndefined
  /\ existingConversationId = JsUndefined
  /\ conversationId = JsUndefined
  /\ query = JsUndefined
  /\ generatedSql = ""
  /\ sql = ""
  /\ queryExecution = NoExecution
  /\ formattedResults = << >>
  /\ answer = ""
  /\ err = NoError
  /\ oracleReply = OracleText("")
  /\ executorReply = FailedReply("none", "")
  /\ response = << >>
  /\ audit = << >>
  /\ trace = << >>
  /\ dispatched = << >>
  /\ files = << >>
  /\ fsRefused = FALSE
  /\ schema = DbSnapshot
  /\ lastRefreshTime = 0
  /\ now \in {0, RefreshIntervalMs, RefreshIntervalMs + 1}
  /\ nodeEnv \in {"production", "development"}
  /\ vin = ""
  /\ vout = [ok |-> FALSE, error |-> "not run"]
  /\ NoSchemaCalls

(***************************************************************************)
(* POST /chat: processChat, one action per await                           *)
(***************************************************************************)

ReceiveChat(m, c) ==
  /\ pc = "idle"
  /\ kind' = "chat"
  /\ pc' = "ValidatingInput"
  /\ message' = m
  /\ existingConversationId' = c
  /\ UNCHANGED << conversationId, query, generatedSql, sql, queryExecution,
                  formattedResults, answer, err >>
  /\ UNCHANGED << outVars, envVars, testVars, schemaVars, oracleReply, executorReply >>

\* ChatValidateInput minting an identifier whatever the caller supplied
ChatValidateInputAlwaysMinting ==
  /\ kind = "chat" /\ pc = "ValidatingInput"
  /\ LET v == validateChatMessage(message)
     IN  IF ~v.ok
         THEN /\ err' = AppError(v.error, "VALIDATION_ERROR")
              /\ pc' = "Throwing"
              /\ UNCHANGED conversationId
         ELSE /\ conversationId' = JsString(MintedUuid)
              /\ pc' = "FetchingSchema"
              /\ UNCHANGED err
  /\ trace' = Append(trace, "validateChatMessage")
  /\ UNCHANGED << kind, message, existingConversationId, query, generatedSql, sql,
                  queryExecution, formattedResults, answer >>
  /\ UNCHANGED << response, audit, dispatched, files, fsRefused >>
  /\ UNCHANGED << envVars, testVars, schemaVars, oracleReply, executorReply >>

\* lines 24-36: the AppError of a rejected message is thrown outside the try
ChatValidateInput ==
  /\ kind = "chat" /\ pc = "ValidatingInput"
  /\ LET v == validateChatMessage(message)
     IN  IF ~v.ok
         THEN /\ err' = AppError(v.error, "VALIDATION_ERROR")
              /\ pc' = "Throwing"
              /\ UNCHANGED conversationId
         ELSE /\ conversationId' = IF Falsy(existingConversationId)
                                   THEN JsString(MintedUuid)
                                   ELSE existingConversationId
              /\ pc' = "FetchingSchema"
              /\ UNCHANGED err
  /\ trace' = Append(trace, "validateChatMessage")
  /\ UNCHANGED << kind, message, existingConversationId, query, generatedSql, sql,
                  queryExecution, formattedResults, answer >>
  /\ UNCHANGED << response, audit, dispatched, files, fsRefused >>
  /\ UNCHANGED << envVars, testVars, schemaVars, oracleReply, executorReply >>

\* NeedsRefresh with the interval reached rather than exceeded
NeedsRefreshAtInterval(forceRefresh) ==
  schema = NoSnapshot \/ forceRefresh \/ now - lastRefreshTime >= RefreshIntervalMs

\* getSchema(): whether it must refresh
NeedsRefresh(forceRefresh) ==
  schema = NoSnapshot \/ forceRefresh \/ now - lastRefreshTime > RefreshIntervalMs

\* line 41: await schemaService.getSchema(); dbOk tells whether the
\* introspection queries of a refresh succeed
ChatGetSchema(dbOk) ==
  /\ kind = "chat" /\ pc = "FetchingSchema"
  /\ trace' = Append(trace, "getSchema")
  /\ IF NeedsRefresh(FALSE)
     THEN IF dbOk
          THEN /\ schema' = DbSnapshot
               /\ lastRefreshTime' = now
               /\ pc' = "GeneratingSql"
               /\ UNCHANGED err
          ELSE /\ err' = PlainError("Schema discovery failed")
               /\ pc' = "Catching"
               /\ UNCHANGED << schema, lastRefreshTime >>
     ELSE /\ pc' = "GeneratingSql"
          /\ UNCHANGED << err, schema, lastRefreshTime >>
  /\ UNCHANGED << kind, message, existingConversationId, conversationId, query,
                  generatedSql, sql, queryExecution, formattedResults, answer >>
  /\ UNCHANGED << response, audit, dispatched, files, fsRefused, now, nodeEnv, testVars, schemaVars, oracleReply, executorReply >>

\* ChatGenerateSql going on to the validation after a failed generation
ChatGenerateSqlContinuing(reply) ==
  /\ kind = "chat" /\ pc = "GeneratingSql"
  /\ trace' = Append(trace, "generateSql")
  /\ oracleReply' = reply
  /\ generatedSql' = generateSql(reply).sql
  /\ sql' = generateSql(reply).sql
  /\ pc' = "ValidatingSql"
  /\ UNCHANGED << kind, message, existingConversationId, conversationId, query,
                  queryExecution, formattedResults, answer, err >>
  /\ UNCHANGED << response, audit, dispatched, files, fsRefused, envVars, testVars, schemaVars, executorReply >>

\* lines 45-50: await openAIService.generateSql(...)
ChatGenerateSql(reply) ==
  /\ kind = "chat" /\ pc = "GeneratingSql"
  /\ trace' = Append(trace, "generateSql")
  /\ oracleReply' = reply
  /\ LET g == generateSql(reply)
     IN  IF g.threw
         THEN /\ err' = PlainError(g.error)
              /\ pc' = "Catching"
              /\ UNCHANGED << generatedSql, sql >>
         ELSE /\ generatedSql' = g.sql
              /\ sql' = g.sql
              /\ pc' = "ValidatingSql"
              /\ UNCHANGED err
  /\ UNCHANGED << kind, message, existingConversationId, conversationId, query,
                  queryExecution, formattedResults, answer >>
  /\ UNCHANGED << response, audit, dispatched, files, fsRefused, envVars, testVars, schemaVars, executorReply >>

\* ChatValidateSql without the try around validateSqlQuery: the outcome of the
\* validation is dropped
ChatValidateSqlUnchecked ==
  /\ kind = "chat" /\ pc = "ValidatingSql"
  /\ sql' = ensureQueryLimit(sql)
  /\ pc' = "Executing"
  /\ trace' = trace \o << "validateSqlQuery", "ensureQueryLimit" >>
  /\ UNCHANGED << kind, message, existingConversationId, conversationId, query,
                  generatedSql, queryExecution, formattedResults, answer, err >>
  /\ UNCHANGED << response, audit, dispatched, files, fsRefused, envVars, testVars, schemaVars, oracleReply,
                  executorReply >>

\* lines 52-62: validateSqlQuery(sql); sql = ensureQueryLimit(sql)
ChatValidateSql ==
  /\ kind = "chat" /\ pc = "ValidatingSql"
  /\ LET v == validateSqlQuery(sql)
     IN  IF v.ok
         THEN /\ sql' = ensureQueryLimit(sql)
              /\ pc' = "Executing"
              /\ trace' = trace \o << "validateSqlQuery", "ensureQueryLimit" >>
              /\ UNCHANGED err
         ELSE /\ err' = AppError("SQL generation failed: " \o v.error, "VALIDATION_ERROR")
              /\ pc' = "Catching"
              /\ trace' = Append(trace, "validateSqlQuery")
              /\ UNCHANGED sql
  /\ UNCHANGED << kind, message, existingConversationId, conversationId, query,
                  generatedSql, queryExecution, formattedResults, answer >>
  /\ UNCHANGED << response, audit, dispatched, files, fsRefused, envVars, testVars, schemaVars, oracleReply, executorReply >>

\* lines 66-94: await n8nService.executeQuery(sql), then formatTimestamps
ChatExecute(reply, t, fsOk) ==
  /\ kind = "chat" /\ pc = "Executing"
  /\ LET r == executeQuery(sql, reply, t, fsOk, IsoStamp(now))
     IN  /\ executorReply' = reply
         /\ dispatched' = Append(dispatched, sql)
         /\ files' = files \o r.file
         /\ fsRefused' = (fsRefused \/ (~r.threw /\ ~r.asynchronous
                                         /\ WriteRefused(reply.data.results, fsOk)))
         /\ IF r.threw
            THEN /\ err' = PlainError(r.error)
                 /\ pc' = "Catching"
                 /\ trace' = Append(trace, "executeQuery")
                 /\ UNCHANGED << queryExecution, formattedResults >>
            ELSE IF r.asynchronous
            THEN /\ queryExecution' = r
                 /\ pc' = "LoggingAsync"
                 /\ trace' = Append(trace, "executeQuery")
                 /\ UNCHANGED << err, formattedResults >>
            ELSE /\ queryExecution' = r
                 /\ formattedResults' = formatTimestamps(r.results)
                 /\ pc' = "Summarizing"
                 /\ trace' = trace \o << "executeQuery", "formatTimestamps" >>
                 /\ UNCHANGED err
  /\ UNCHANGED << kind, message, existingConversationId, conversationId, query,
                  generatedSql, sql, answer >>
  /\ UNCHANGED << response, audit, envVars, testVars, schemaVars, oracleReply >>

\* lines 81-87: await databaseService.logQuery(async entry)
ChatLogAsync(insertOk) ==
  /\ kind = "chat" /\ pc = "LoggingAsync"
  /\ LET l == logQuery(AuditLogEntry(sql, message.v, 0, 0, "async", ""), insertOk)
     IN  /\ audit' = Append(audit, l.row)
         /\ IF l.threw
            THEN err' = PlainError(l.error) /\ pc' = "Catching"
            ELSE pc' = "RespondingAsync" /\ UNCHANGED err
  /\ trace' = Append(trace, "logQuery")
  /\ UNCHANGED << kind, message, existingConversationId, conversationId, query,
                  generatedSql, sql, queryExecution, formattedResults, answer >>
  /\ UNCHANGED << response, dispatched, files, fsRefused, envVars, testVars, schemaVars, oracleReply, executorReply >>

\* lines 89-90: return res.status(202).json(response)
ChatRespondAsync ==
  /\ kind = "chat" /\ pc = "RespondingAsync"
  /\ response' = Append(response,
       [status |-> 202,
        body |-> [message |-> "Your query is being processed. Results will be available soon.",
                  sql |-> sql, data |-> << >>, conversationId |-> conversationId,
                  asynchronous |-> TRUE, filename |-> ""]])
  /\ pc' = "done"
  /\ trace' = Append(trace, "respond")
  /\ UNCHANGED << kind, message, existingConversationId, conversationId, query,
                  generatedSql, sql, queryExecution, formattedResults, answer, err >>
  /\ UNCHANGED << audit, dispatched, files, fsRefused, envVars, testVars, schemaVars, oracleReply, executorReply >>

\* ChatSummarize with the failure of generateResponse swallowed
ChatSummarizeSwallowing(reply) ==
  /\ kind = "chat" /\ pc = "Summarizing"
  /\ trace' = Append(trace, "generateResponse")
  /\ oracleReply' = reply
  /\ answer' = generateResponse(reply).answer
  /\ pc' = "LoggingSuccess"
  /\ UNCHANGED << kind, message, existingConversationId, conversationId, query,
                  generatedSql, sql, queryExecution, formattedResults, err >>
  /\ UNCHANGED << response, audit, dispatched, files, fsRefused, envVars, testVars, schemaVars, executorReply >>

\* lines 98-102: await openAIService.generateResponse(...)
ChatSummarize(reply) ==
  /\ kind = "chat" /\ pc = "Summarizing"
  /\ trace' = Append(trace, "generateResponse")
  /\ oracleReply' = reply
  /\ LET g == generateResponse(reply)
     IN  IF g.threw
         THEN err' = PlainError(g.error) /\ pc' = "Catching" /\ UNCHANGED answer
         ELSE answer' = g.answer /\ pc' = "LoggingSuccess" /\ UNCHANGED err
  /\ UNCHANGED << kind, message, existingConversationId, conversationId, query,
                  generatedSql, sql, queryExecution, formattedResults >>
  /\ UNCHANGED << response, audit, dispatched, files, fsRefused, envVars, testVars, schemaVars, executorReply >>

\* ChatLogSuccess with the statement as generated as the query text of the entry
ChatLogSuccessWithGeneratedSql(insertOk) ==
  /\ kind = "chat" /\ pc = "LoggingSuccess"
  /\ LET l == logQuery(AuditLogEntry(generatedSql, message.v, queryExecution.executionTime,
                                     queryExecution.rowCount, "success", ""), insertOk)
     IN  /\ audit' = Append(audit, l.row)
         /\ IF l.threw
            THEN err' = PlainError(l.error) /\ pc' = "Catching"
            ELSE pc' = "SavingResults" /\ UNCHANGED err
  /\ trace' = Append(trace, "logQuery")
  /\ UNCHANGED << kind, message, existingConversationId, conversationId, query,
                  generatedSql, sql, queryExecution, formattedResults, answer >>
  /\ UNCHANGED << response, dispatched, files, fsRefused, envVars, testVars, schemaVars, oracleReply, executorReply >>

\* lines 104-112: await databaseService.logQuery(success entry)
ChatLogSuccess(insertOk) ==
  /\ kind = "chat" /\ pc = "LoggingSuccess"
  /\ LET l == logQuery(AuditLogEntry(sql, message.v, queryExecution.executionTime,
                                     queryExecution.rowCount, "success", ""), insertOk)
     IN  /\ audit' = Append(audit, l.row)
         /\ IF l.threw
            THEN err' = PlainError(l.error) /\ pc' = "Catching"
            ELSE pc' = "SavingResults" /\ UNCHANGED err
  /\ trace' = Append(trace, "logQuery")
  /\ UNCHANGED << kind, message, existingConversationId, conversationId, query,
                  generatedSql, sql, queryExecution, formattedResults, answer >>
  /\ UNCHANGED << response, dispatched, files, fsRefused, envVars, testVars, schemaVars, oracleReply, executorReply >>

\* ChatSaveResults without the try of lines 123-130: a failed write is thrown
\* to the catch of processChat
ChatSaveResultsRethrowing(fsOk, tick) ==
  /\ kind = "chat" /\ pc = "SavingResults"
  /\ now' = now + tick
  /\ LET jsonData == [timestamp |-> IsoStamp(now'), query |-> sql,
                      results |-> formattedResults, userQuery |-> message.v,
                      naturalLanguageResponse |-> answer]
         saved == saveResultsAsJson(jsonData, RequestId, fsOk, IsoStamp(now'))
     IN  IF saved.threw
         THEN /\ err' = PlainError("EACCES: permission denied")
              /\ pc' = "Catching"
              /\ UNCHANGED files
         ELSE /\ files' = Append(files, saved)
              /\ pc' = "Responding"
              /\ UNCHANGED err
  /\ fsRefused' = (fsRefused \/ WriteRefused(RequestId, fsOk))
  /\ trace' = Append(trace, "saveResultsAsJson")
  /\ UNCHANGED << kind, message, existingConversationId, conversationId, query,
                  generatedSql, sql, queryExecution, formattedResults, answer >>
  /\ UNCHANGED << response, audit, dispatched, schema, lastRefreshTime, nodeEnv, testVars, schemaVars, oracleReply, executorReply >>

\* lines 114-130: await n8nService.saveResultsAsJson(jsonData, requestId); its
\* failure is caught and logged.  tick is the time passed since the last step.
ChatSaveResults(fsOk, tick) ==
  /\ kind = "chat" /\ pc = "SavingResults"
  /\ now' = now + tick
  /\ LET jsonData == [timestamp |-> IsoStamp(now'), query |-> sql,
                      results |-> formattedResults, userQuery |-> message.v,
                      naturalLanguageResponse |-> answer]
         saved == saveResultsAsJson(jsonData, RequestId, fsOk, IsoStamp(now'))
     IN  files' = IF saved.threw THEN files ELSE Append(files, saved)
  /\ fsRefused' = (fsRefused \/ WriteRefused(RequestId, fsOk))
  /\ pc' = "Responding"
  /\ trace' = Append(trace, "saveResultsAsJson")
  /\ UNCHANGED << kind, message, existingConversationId, conversationId, query,
                  generatedSql, sql, queryExecution, formattedResults, answer, err >>
  /\ UNCHANGED << response, audit, dispatched, schema, lastRefreshTime, nodeEnv, testVars, schemaVars, oracleReply, executorReply >>

\* lines 132-144: return res.status(200).json(response)
ChatRespond(tick) ==
  /\ kind = "chat" /\ pc = "Responding"
  /\ now' = now + tick
  /\ response' = Append(response,
       [status |-> 200,
        body |-> [message |-> answer, sql |-> sql, data |-> formattedResults,
                  conversationId |-> conversationId, asynchronous |-> FALSE,
                  filename |-> IF Falsy(RequestId) THEN ""
                               ELSE "query_" \o IsoStamp(now') \o "_"
                                    \o SubSeq(RequestId.v, 1, 8) \o ".json"]])
  /\ pc' = "done"
  /\ trace' = Append(trace, "respond")
  /\ UNCHANGED << kind, message, existingConversationId, conversationId, query,
                  generatedSql, sql, queryExecution, formattedResults, answer, err >>
  /\ UNCHANGED << audit, dispatched, files, fsRefused, schema, lastRefreshTime, nodeEnv, testVars, schemaVars, oracleReply, executorReply >>

\* ChatCatchLog with the statement at hand as the query text of the entry
ChatCatchLogWithSql(insertOk) ==
  /\ kind = "chat" /\ pc = "Catching"
  /\ LET errorMessage == err.message
         l == logQuery(AuditLogEntry(sql, message.v, 0, 0, "error", errorMessage), insertOk)
     IN  /\ audit' = Append(audit, l.row)
         /\ err' = ClassifyError(errorMessage)
  /\ pc' = "Throwing"
  /\ trace' = Append(trace, "logQuery")
  /\ UNCHANGED << kind, message, existingConversationId, conversationId, query,
                  generatedSql, sql, queryExecution, formattedResults, answer >>
  /\ UNCHANGED << response, dispatched, files, fsRefused, envVars, testVars, schemaVars, oracleReply, executorReply >>

\* lines 145-185: the catch block: classify the message, await logQuery(error
\* entry) inside its own try, then throw the AppError
ChatCatchLog(insertOk) ==
  /\ kind = "chat" /\ pc = "Catching"
  /\ LET errorMessage == err.message
         l == logQuery(AuditLogEntry("", message.v, 0, 0, "error", errorMessage), insertOk)
     IN  /\ audit' = Append(audit, l.row)
         /\ err' = ClassifyError(errorMessage)
  /\ pc' = "Throwing"
  /\ trace' = Append(trace, "logQuery")
  /\ UNCHANGED << kind, message, existingConversationId, conversationId, query,
                  generatedSql, sql, queryExecution, formattedResults, answer >>
  /\ UNCHANGED << response, dispatched, files, fsRefused, envVars, testVars, schemaVars, oracleReply, executorReply >>

\* HandleError without a response: the error is dropped
HandleErrorSilent ==
  /\ pc = "Throwing"
  /\ pc' = "done"
  /\ trace' = Append(trace, "respond")
  /\ UNCHANGED << kind, message, existingConversationId, conversationId, query,
                  generatedSql, sql, queryExecution, formattedResults, answer, err >>
  /\ UNCHANGED << response, audit, dispatched, files, fsRefused, envVars, testVars, schemaVars, oracleReply,
                  executorReply >>

\* the rejection of the handler's promise: asyncHandler hands the error to
\* errorHandlerMiddleware, which sends the error response
HandleError ==
  /\ pc = "Throwing"
  /\ response' = Append(response, errorHandlerMiddleware(asyncHandler(err), nodeEnv))
  /\ pc' = "done"
  /\ trace' = Append(trace, "respond")
  /\ UNCHANGED << kind, message, existingConversationId, conversationId, query,
                  generatedSql, sql, queryExecution, formattedResults, answer, err >>
  /\ UNCHANGED << audit, dispatched, files, fsRefused, envVars, testVars, schemaVars, oracleReply, executorReply >>

(***************************************************************************)
(* POST /query: executeRawQuery                                            *)
(***************************************************************************)

ReceiveQuery(q) ==
  /\ pc = "idle"
  /\ kind' = "query"
  /\ pc' = "ValidatingQuery"
  /\ query' = q
  /\ UNCHANGED << message, existingConversationId, conversationId, generatedSql, sql,
                  queryExecution, formattedResults, answer, err >>
  /\ UNCHANGED << outVars, envVars, testVars, schemaVars, oracleReply, executorReply >>

\* lines 206-220
QueryValidate ==
  /\ kind = "query" /\ pc = "ValidatingQuery"
  /\ IF Falsy(query) \/ query.t # "string"
     THEN /\ err' = AppError("Query is required and must be a string", "VALIDATION_ERROR")
          /\ pc' = "Throwing"
          /\ UNCHANGED trace
     ELSE LET v == validateSqlQuery(query.v)
          IN  /\ trace' = Append(trace, "validateSqlQuery")
              /\ IF v.ok
                 THEN pc' = "ExecutingQuery" /\ UNCHANGED err
                 ELSE /\ err' = AppError("SQL validation failed: " \o v.error,
                                         "VALIDATION_ERROR")
                      /\ pc' = "Throwing"
  /\ UNCHANGED << kind, message, existingConversationId, conversationId, query,
                  generatedSql, sql, queryExecution, formattedResults, answer >>
  /\ UNCHANGED << response, audit, dispatched, files, fsRefused, envVars, testVars, schemaVars, oracleReply, executorReply >>

\* lines 222-227: await n8nService.executeQuery(query), then formatTimestamps
QueryExecute(reply, t, fsOk) ==
  /\ kind = "query" /\ pc = "ExecutingQuery"
  /\ LET r == executeQuery(query.v, reply, t, fsOk, IsoStamp(now))
     IN  /\ executorReply' = reply
         /\ dispatched' = Append(dispatched, query.v)
         /\ files' = files \o r.file
         /\ fsRefused' = (fsRefused \/ (~r.threw /\ ~r.asynchronous
                                         /\ WriteRefused(reply.data.results, fsOk)))
         /\ IF r.threw
            THEN /\ err' = PlainError(r.error)
                 /\ pc' = "Throwing"
                 /\ trace' = Append(trace, "executeQuery")
                 /\ UNCHANGED << queryExecution, formattedResults >>
            ELSE /\ queryExecution' = r
                 /\ formattedResults' = formatTimestamps(r.results)
                 /\ pc' = "LoggingQuery"
                 /\ trace' = trace \o << "executeQuery", "formatTimestamps" >>
                 /\ UNCHANGED err
  /\ UNCHANGED << kind, message, existingConversationId, conversationId, query,
                  generatedSql, sql, answer >>
  /\ UNCHANGED << response, audit, envVars, testVars, schemaVars, oracleReply >>

\* lines 229-237: await databaseService.logQuery(success entry)
QueryLog(insertOk) ==
  /\ kind = "query" /\ pc = "LoggingQuery"
  /\ LET l == logQuery(AuditLogEntry(query.v, "Raw query execution",
                                     queryExecution.executionTime,
                                     queryExecution.rowCount, "success", ""), insertOk)
     IN  /\ audit' = Append(audit, l.row)
         /\ IF l.threw
            THEN err' = PlainError(l.error) /\ pc' = "Throwing"
            ELSE pc' = "RespondingQuery" /\ UNCHANGED err
  /\ trace' = Append(trace, "logQuery")
  /\ UNCHANGED << kind, message, existingConversationId, conversationId, query,
                  generatedSql, sql, queryExecution, formattedResults, answer >>
  /\ UNCHANGED << response, dispatched, files, fsRefused, envVars, testVars, schemaVars, oracleReply, executorReply >>

\* lines 239-245: return res.status(200).json({results, metadata})
QueryRespond ==
  /\ kind = "query" /\ pc = "RespondingQuery"
  /\ response' = Append(response,
       [status |-> 200,
        body |-> [results |-> formattedResults,
                  metadata |-> [rowCount |-> queryExecution.rowCount,
                                executionTime |-> queryExecution.executionTime]]])
  /\ pc' = "done"
  /\ trace' = Append(trace, "respond")
  /\ UNCHANGED << kind, message, existingConversationId, conversationId, query,
                  generatedSql, sql, queryExecution, formattedResults, answer, err >>
  /\ UNCHANGED << audit, dispatched, files, fsRefused, envVars, testVars, schemaVars, oracleReply, executorReply >>

Ticks == 0..MaxTick
ExecutionTimes == 0..MaxExecutionTime

Next ==
  \/ pc = "idle" /\ \E m \in Messages, c \in ConversationIds : ReceiveChat(m, c)
  \/ ChatValidateInput
  \/ \E dbOk \in BOOLEAN : ChatGetSchema(dbOk)
  \/ \E reply \in SqlReplies : ChatGenerateSql(reply)
  \/ ChatValidateSql
  \/ \E reply \in ExecutorReplies, t \in ExecutionTimes, fsOk \in BOOLEAN :
       ChatExecute(reply, t, fsOk)
  \/ \E insertOk \in BOOLEAN : ChatLogAsync(insertOk)
  \/ ChatRespondAsync
  \/ \E reply \in SummaryReplies : ChatSummarize(reply)
  \/ \E insertOk \in BOOLEAN : ChatLogSuccess(insertOk)
  \/ \E fsOk \in BOOLEAN, tick \in Ticks : ChatSaveResults(fsOk, tick)
  \/ \E tick \in Ticks : ChatRespond(tick)
  \/ \E insertOk \in BOOLEAN : ChatCatchLog(insertOk)
  \/ HandleError
  \/ pc = "idle" /\ \E q \in RawQueries : ReceiveQuery(q)
  \/ QueryValidate
  \/ \E reply \in ExecutorReplies, t \in ExecutionTimes, fsOk \in BOOLEAN :
       QueryExecute(reply, t, fsOk)
  \/ \E insertOk \in BOOLEAN : QueryLog(insertOk)
  \/ QueryRespond

Spec == Init /\ [][Next]_vars

\* a step of the handler of the request at hand: every await of processChat and
\* executeRawQuery settles, and the promise chain of asyncHandler runs on
Progress == pc # "idle" /\ Next

\* the behaviours in which every call made for a request returns or fails
SpecLive == Spec /\ WF_vars(Progress)

(***************************************************************************)
(* The validators on their own: every text of at most MaxTokens tokens     *)
(***************************************************************************)

MaxTokens == 3

\* the largest number of tokens put before and after a denylisted keyword
MaxBefore == 1
MaxAfter == 1

\* the pieces the statements under test are assembled from
SqlTokens == { "SELECT 1", "select", " ", "\n", ";", "(", ")", "--", "/*", "x" }

\* the denylisted keywords in several letter cases, whole and in part
KeywordTokens ==
  { "DROP", "drop", "Delete", "TRUNCATE", "insert", "UPDATE", "alter", "CREATE",
    "grant", "REVOKE", "Rename", "LOAD DATA", "load\nDATA", "LOAD", "into OUTFILE",
    "INTO", "information_schema", "SLEEP", "sleep (", "Benchmark", "BENCHMARK(",
    "shutdown" }

RECURSIVE TextsOf(_)
TextsOf(n) ==
  IF n = 0 THEN {""}
  ELSE LET shorter == TextsOf(n - 1)
       IN  shorter \cup {s \o tok : s \in shorter, tok \in SqlTokens}

\* statements of exactly MaxSqlLength characters and of one more
LongTexts ==
  { "SELECT " \o Repeat("x", MaxSqlLength - 7), "SELECT " \o Repeat("x", MaxSqlLength - 6) }

SqlTexts ==
  TextsOf(MaxTokens)
  \cup LongTexts
  \cup {a \o k \o b : a \in TextsOf(MaxBefore), k \in KeywordTokens, b \in TextsOf(MaxAfter)}

NotRun == [ok |-> FALSE, error |-> "not run"]

InitValidator ==
  /\ kind = "none"
  /\ pc = "idle"
  /\ message = JsUndefined
  /\ existingConversationId = JsUndefined
  /\ conversationId = JsUndefined
  /\ query = JsUndefined
  /\ generatedSql = ""
  /\ sql = ""
  /\ queryExecution = NoExecution
  /\ formattedResults = << >>
  /\ answer = ""
  /\ err = NoError
  /\ oracleReply = OracleText("")
  /\ executorReply = FailedReply("none", "")
  /\ response = << >>
  /\ audit = << >>
  /\ trace = << >>
  /\ dispatched = << >>
  /\ files = << >>
  /\ fsRefused = FALSE
  /\ schema = DbSnapshot
  /\ lastRefreshTime = 0
  /\ now = 0
  /\ nodeEnv = "production"
  /\ vin \in SqlTexts
  /\ vout = NotRun
  /\ NoSchemaCalls

\* a call of validateSqlQuery(vin)
RunValidateSqlQuery ==
  /\ vout = NotRun
  /\ vout' = validateSqlQuery(vin)
  /\ UNCHANGED << reqVars, outVars, envVars, vin, schemaVars >>

NextValidator == RunValidateSqlQuery

SpecValidator == InitValidator /\ [][NextValidator]_vars

(***************************************************************************)
(* SchemaService (schema.service.ts): getSchema and refreshSchema, one      *)
(* action per await, for callers that may overlap                          *)
(***************************************************************************)

\* the largest number of getSchema calls made
MaxCalls == 2

\* the largest version the data dictionary of the database reaches
MaxDbVersion == 1

\* Date.now() when the SchemaService is constructed
BootTime == 10 * RefreshIntervalMs

\* the service as constructed: no snapshot, lastRefreshTime 0
InitSchema ==
  /\ kind = "none"
  /\ pc = "idle"
  /\ message = JsUndefined
  /\ existingConversationId = JsUndefined
  /\ conversationId = JsUndefined
  /\ query = JsUndefined
  /\ generatedSql = ""
  /\ sql = ""
  /\ queryExecution = NoExecution
  /\ formattedResults = << >>
  /\ answer = ""
  /\ err = NoError
  /\ oracleReply = OracleText("")
  /\ executorReply = FailedReply("none", "")
  /\ response = << >>
  /\ audit = << >>
  /\ trace = << >>
  /\ dispatched = << >>
  /\ files = << >>
  /\ fsRefused = FALSE
  /\ schema = NoSnapshot
  /\ lastRefreshTime = 0
  /\ now = BootTime
  /\ nodeEnv = "production"
  /\ vin = ""
  /\ vout = NotRun
  /\ NoSchemaCalls

\* what the schema model leaves alone
NotSchemaVars == << reqVars, outVars, nodeEnv, testVars >>

\* the catch of refreshSchema (lines 70-73): the call as it fails
RefreshFailed(call) ==
  [call EXCEPT !.pc = "failed",
               !.result = [threw |-> TRUE, error |-> "Schema discovery failed",
                           schema |-> NoSnapshot]]

\* lines 20-30 of getSchema, up to the first await of refreshSchema (the query
\* of getTables), or line 32 when no refresh is due; a call takes the lowest
\* idle caller, callers being interchangeable
BeginGetSchema(c, forceRefresh) ==
  /\ callers[c].pc = "idle"
  /\ \A d \in Callers : d < c => callers[d].pc # "idle"
  /\ callCount < MaxCalls
  /\ callCount' = callCount + 1
  /\ callers' = [callers EXCEPT ![c] =
       IF NeedsRefresh(forceRefresh)
       THEN [IdleCaller EXCEPT !.pc = "getTables", !.forceRefresh = forceRefresh,
                               !.issued = 1,
                               !.before = [schema |-> schema,
                                           lastRefreshTime |-> lastRefreshTime],
                               !.publishedAtStart = published,
                               !.started = callCount + 1]
       ELSE [IdleCaller EXCEPT !.pc = "returned", !.forceRefresh = forceRefresh,
                               !.result = [threw |-> FALSE, error |-> "", schema |-> schema],
                               !.before = [schema |-> schema,
                                           lastRefreshTime |-> lastRefreshTime],
                               !.publishedAtStart = published,
                               !.started = callCount + 1]]
  /\ UNCHANGED << schema, lastRefreshTime, now, dbVersion, published, NotSchemaVars >>

\* Publish keeping the first table of the snapshot another refresh published
PublishMerging(c, assembled) ==
  /\ schema' = IF schema.null \/ assembled = << >>
               THEN Snapshot(assembled)
               ELSE Snapshot([i \in 1..Len(assembled) |->
                                IF i = 1 THEN schema.tables[1] ELSE assembled[i]])
  /\ lastRefreshTime' = now
  /\ published' = published + 1
  /\ callers' = [callers EXCEPT ![c].pc = "returned",
                                ![c].assembled = assembled,
                                ![c].result = [threw |-> FALSE, error |-> "",
                                               schema |-> Snapshot(assembled)]]

\* lines 65-67 and 32: the snapshot assembled by the call of c is published and
\* getSchema returns this.schema
Publish(c, assembled) ==
  /\ schema' = Snapshot(assembled)
  /\ lastRefreshTime' = now
  /\ published' = published + 1
  /\ callers' = [callers EXCEPT ![c].pc = "returned",
                                ![c].assembled = assembled,
                                ![c].result = [threw |-> FALSE, error |-> "",
                                               schema |-> Snapshot(assembled)]]

\* line 43: the query of getTables settles; with the table list at hand the
\* loop issues the query of getColumns for the first table
GetTablesReply(c, ok) ==
  /\ callers[c].pc = "getTables"
  /\ IF ~ok
     THEN /\ callers' = [callers EXCEPT ![c] = RefreshFailed(callers[c])]
          /\ UNCHANGED << schema, lastRefreshTime, published >>
     ELSE IF TableNames = << >>
     THEN Publish(c, << >>)
     ELSE /\ callers' = [callers EXCEPT ![c].pc = "getColumns",
                                        ![c].names = TableNames,
                                        ![c].idx = 1,
                                        ![c].issued = @ + 1]
          /\ UNCHANGED << schema, lastRefreshTime, published >>
  /\ UNCHANGED << now, dbVersion, callCount, NotSchemaVars >>

\* GetColumnsReply publishing what was assembled so far when the query fails
GetColumnsReplyPublishingPartial(c, ok) ==
  /\ callers[c].pc = "getColumns"
  /\ IF ~ok
     THEN /\ schema' = Snapshot(callers[c].assembled)
          /\ lastRefreshTime' = now
          /\ callers' = [callers EXCEPT ![c] = RefreshFailed(callers[c])]
     ELSE /\ callers' = [callers EXCEPT ![c].pc = "getRelationships",
                                        ![c].columns = dbVersion,
                                        ![c].issued = @ + 1]
          /\ UNCHANGED << schema, lastRefreshTime >>
  /\ UNCHANGED << now, dbVersion, callCount, published, NotSchemaVars >>

\* line 52: the query of getColumns settles; the query of getRelationships for
\* the same table is issued
GetColumnsReply(c, ok) ==
  /\ callers[c].pc = "getColumns"
  /\ IF ~ok
     THEN callers' = [callers EXCEPT ![c] = RefreshFailed(callers[c])]
     ELSE callers' = [callers EXCEPT ![c].pc = "getRelationships",
                                     ![c].columns = dbVersion,
                                     ![c].issued = @ + 1]
  /\ UNCHANGED << schema, lastRefreshTime, now, dbVersion, callCount, published,
                  NotSchemaVars >>

\* lines 53-67: the query of getRelationships settles and the table is pushed;
\* the loop goes on with the next table or, after the last, the snapshot is
\* published
GetRelationshipsReply(c, ok) ==
  /\ callers[c].pc = "getRelationships"
  /\ LET call == callers[c]
         table == TableMetadata(call.names[call.idx], call.columns, dbVersion)
     IN  IF ~ok
         THEN /\ callers' = [callers EXCEPT ![c] = RefreshFailed(call)]
              /\ UNCHANGED << schema, lastRefreshTime, published >>
         ELSE IF call.idx = Len(call.names)
         THEN Publish(c, Append(call.assembled, table))
         ELSE /\ callers' = [callers EXCEPT ![c].pc = "getColumns",
                                            ![c].assembled = Append(@, table),
                                            ![c].idx = @ + 1,
                                            ![c].issued = @ + 1]
              /\ UNCHANGED << schema, lastRefreshTime, published >>
  /\ UNCHANGED << now, dbVersion, callCount, NotSchemaVars >>

\* the caller takes the result of its call
FinishGetSchema(c) ==
  /\ callers[c].pc \in {"returned", "failed"}
  /\ callers' = [callers EXCEPT ![c] = IdleCaller]
  /\ UNCHANGED << schema, lastRefreshTime, now, dbVersion, callCount, published,
                  NotSchemaVars >>

\* the tables of the connected database change
AlterDatabase ==
  /\ dbVersion < MaxDbVersion
  /\ dbVersion' = dbVersion + 1
  /\ UNCHANGED << schema, lastRefreshTime, now, callers, callCount, published,
                  NotSchemaVars >>

\* the readings of the clock: BootTime, a refresh interval later, and a
\* millisecond past that
ClockReadings ==
  { BootTime, BootTime + RefreshIntervalMs, BootTime + RefreshIntervalMs + 1 }

\* time passes, up to the reading t
AdvanceClock(t) ==
  /\ t > now
  /\ now' = t
  /\ UNCHANGED << schema, lastRefreshTime, dbVersion, callers, callCount, published,
                  NotSchemaVars >>

NextSchema ==
  \/ \E c \in Callers, forceRefresh \in BOOLEAN : BeginGetSchema(c, forceRefresh)
  \/ \E c \in Callers, ok \in BOOLEAN : GetTablesReply(c, ok)
  \/ \E c \in Callers, ok \in BOOLEAN : GetColumnsReply(c, ok)
  \/ \E c \in Callers, ok \in BOOLEAN : GetRelationshipsReply(c, ok)
  \/ \E c \in Callers : FinishGetSchema(c)
  \/ AlterDatabase
  \/ \E t \in ClockReadings : AdvanceClock(t)

SpecSchema == InitSchema /\ [][NextSchema]_vars

\* the query the call of c awaits settles: databaseService.query resolves or
\* rejects
SettleQuery(c) ==
  \E ok \in BOOLEAN :
    \/ GetTablesReply(c, ok)
    \/ GetColumnsReply(c, ok)
    \/ GetRelationshipsReply(c, ok)

\* forced refreshes only (GET /schema?refresh=true), overlapping at will
NextForcedRefreshes ==
  \/ \E c \in Callers : BeginGetSchema(c, TRUE)
  \/ \E c \in Callers, ok \in BOOLEAN : GetTablesReply(c, ok)
  \/ \E c \in Callers, ok \in BOOLEAN : GetColumnsReply(c, ok)
  \/ \E c \in Callers, ok \in BOOLEAN : GetRelationshipsReply(c, ok)
  \/ \E c \in Callers : FinishGetSchema(c)
  \/ AlterDatabase

\* forced refreshes with every query issued to the database settling
SpecForcedRefreshes ==
  /\ InitSchema
  /\ [][NextForcedRefreshes]_vars
  /\ \A c \in Callers : WF_vars(SettleQuery(c))

(***************************************************************************)
(* ensureQueryLimit (validators.ts) applied to generated statements, and    *)
(* applied again to its own result                                         *)
(***************************************************************************)

\* the largest number of pieces a statement under test is assembled from
MaxLimitTokens == 3

\* the pieces: a statement, white space, terminators, LIMIT in several letter
\* cases with and without a value, and words that only resemble it
LimitTokens ==
  { "SELECT * FROM users", " ", "\n", ";", "LIMIT", "limit 500", "Limit\t5",
    "LIMIT5", "LIMITED", "7", "LIMIT x" }

RECURSIVE LimitTextsOf(_)
LimitTextsOf(n) ==
  IF n = 0 THEN {""}
  ELSE LET shorter == LimitTextsOf(n - 1)
       IN  shorter \cup {s \o tok : s \in shorter, tok \in LimitTokens}

LimitTexts == LimitTextsOf(MaxLimitTokens)

InitLimit ==
  /\ kind = "none"
  /\ pc = "idle"
  /\ message = JsUndefined
  /\ existingConversationId = JsUndefined
  /\ conversationId = JsUndefined
  /\ query = JsUndefined
  /\ generatedSql = ""
  /\ sql = ""
  /\ queryExecution = NoExecution
  /\ formattedResults = << >>
  /\ answer = ""
  /\ err = NoError
  /\ oracleReply = OracleText("")
  /\ executorReply = FailedReply("none", "")
  /\ response = << >>
  /\ audit = << >>
  /\ trace = << >>
  /\ dispatched = << >>
  /\ files = << >>
  /\ fsRefused = FALSE
  /\ schema = DbSnapshot
  /\ lastRefreshTime = 0
  /\ now = 0
  /\ nodeEnv = "production"
  /\ vin \in LimitTexts
  /\ vout = << >>
  /\ NoSchemaCalls

\* a call of ensureQueryLimit on the statement, then on each result in turn
RunEnsureQueryLimit ==
  /\ Len(vout) < 2
  /\ vout' = Append(vout, ensureQueryLimit(IF vout = << >> THEN vin ELSE vout[Len(vout)]))
  /\ UNCHANGED << reqVars, outVars, envVars, vin, schemaVars >>

NextLimit == RunEnsureQueryLimit

SpecLimit == InitLimit /\ [][NextLimit]_vars

(***************************************************************************)
(* OpenAIService.generateSql (openai.service.ts) applied to generated       *)
(* chat-completion texts                                                   *)
(***************************************************************************)

\* the largest number of lines of a chat-completion text under test
MaxOracleLines == 4

\* the lines the texts are assembled from: lines of a statement, prose, blank
\* lines and code fences with and without a language tag
OracleLines ==
  { "SELECT id", "INNER JOIN orders", "Here is the query:", "The end", "",
    Fence, Fence \o "sql", Fence \o "mysql", " Note",
    Fence \o "sql SELECT 1 " \o Fence }

RECURSIVE OracleTextsOf(_)
OracleTextsOf(n) ==
  IF n = 1 THEN OracleLines
  ELSE LET shorter == OracleTextsOf(n - 1)
       IN  shorter \cup {s \o "\n" \o line : s \in shorter, line \in OracleLines}

OracleTexts == OracleTextsOf(MaxOracleLines)

InitOracle ==
  /\ kind = "none"
  /\ pc = "idle"
  /\ message = JsUndefined
  /\ existingConversationId = JsUndefined
  /\ conversationId = JsUndefined
  /\ query = JsUndefined
  /\ generatedSql = ""
  /\ sql = ""
  /\ queryExecution = NoExecution
  /\ formattedResults = << >>
  /\ answer = ""
  /\ err = NoError
  /\ oracleReply = OracleText("")
  /\ executorReply = FailedReply("none", "")
  /\ response = << >>
  /\ audit = << >>
  /\ trace = << >>
  /\ dispatched = << >>
  /\ files = << >>
  /\ fsRefused = FALSE
  /\ schema = DbSnapshot
  /\ lastRefreshTime = 0
  /\ now = 0
  /\ nodeEnv = "production"
  /\ vin \in OracleTexts
  /\ vout = NotRun
  /\ NoSchemaCalls

\* a call of generateSql in which the chat-completion call fails or returns vin
RunGenerateSql(threw) ==
  /\ vout = NotRun
  /\ vout' = generateSql(IF threw THEN OracleError("Connection error.")
                         ELSE OracleText(vin))
  /\ UNCHANGED << reqVars, outVars, envVars, vin, schemaVars >>

NextOracle == \E threw \in BOOLEAN : RunGenerateSql(threw)

SpecOracle == InitOracle /\ [][NextOracle]_vars

(***************************************************************************)
(* OpenAIService.formatQueryResults (openai.service.ts) applied to          *)
(* generated result sets                                                   *)
(***************************************************************************)

\* the largest number of rows of a result set under test
MaxRows == 12

\* the rows the result sets are assembled from
SampleRows ==
  { << [key |-> "id", value |-> JsNumber("1")], [key |-> "name", value |-> JsString("ann")] >>,
    << [key |-> "id", value |-> JsNumber("2")] >> }

RECURSIVE ResultSetsOf(_)
ResultSetsOf(n) ==
  IF n = 0 THEN { << >> }
  ELSE LET shorter == ResultSetsOf(n - 1)
       IN  shorter \cup {Append(rows, row) : rows \in shorter, row \in SampleRows}

ResultSets == ResultSetsOf(MaxRows)

InitFormat ==
  /\ kind = "none"
  /\ pc = "idle"
  /\ message = JsUndefined
  /\ existingConversationId = JsUndefined
  /\ conversationId = JsUndefined
  /\ query = JsUndefined
  /\ generatedSql = ""
  /\ sql = ""
  /\ queryExecution = NoExecution
  /\ formattedResults = << >>
  /\ answer = ""
  /\ err = NoError
  /\ oracleReply = OracleText("")
  /\ executorReply = FailedReply("none", "")
  /\ response = << >>
  /\ audit = << >>
  /\ trace = << >>
  /\ dispatched = << >>
  /\ files = << >>
  /\ fsRefused = FALSE
  /\ schema = DbSnapshot
  /\ lastRefreshTime = 0
  /\ now = 0
  /\ nodeEnv = "production"
  /\ vin \in ResultSets
  /\ vout = NotRun
  /\ NoSchemaCalls

\* a call of formatQueryResults(vin)
RunFormatQueryResults ==
  /\ vout = NotRun
  /\ vout' = [text |-> formatQueryResults(vin)]
  /\ UNCHANGED << reqVars, outVars, envVars, vin, schemaVars >>

NextFormat == RunFormatQueryResults

SpecFormat == InitFormat /\ [][NextFormat]_vars

(***************************************************************************)
(* formatTimestamps (validators.ts) applied to generated result sets, and   *)
(* applied again to its own result                                         *)
(***************************************************************************)

\* the largest number of rows of a result set handed to formatTimestamps
MaxTimestampRows == 2

\* the values of the rows: numbers, plain texts, UTC timestamps with and
\* without milliseconds, a timestamp-shaped text that denotes no date, and the
\* texts formatDate produces
TimestampValues ==
  { JsNumber("1"), JsString("ann"),
    JsString("2023-10-15T14:30:22.000Z"), JsString("2024-02-29T23:59:59Z"),
    JsString("2023-13-45T25:61:61Z"),
    JsString("2023-10-15 14:30:22"), JsString("Invalid Date") }

TimestampRows ==
  { [id |-> a, created_at |-> b] : a \in {JsNumber("1"), JsString("2023-10-15T14:30:22.000Z")},
                                   b \in TimestampValues }

RECURSIVE TimestampResultsOf(_)
TimestampResultsOf(n) ==
  IF n = 0 THEN { << >> }
  ELSE LET shorter == TimestampResultsOf(n - 1)
       IN  shorter \cup {Append(rows, row) : rows \in shorter, row \in TimestampRows}

TimestampResults == TimestampResultsOf(MaxTimestampRows)

InitTimestamps ==
  /\ kind = "none"
  /\ pc = "idle"
  /\ message = JsUndefined
  /\ existingConversationId = JsUndefined
  /\ conversationId = JsUndefined
  /\ query = JsUndefined
  /\ generatedSql = ""
  /\ sql = ""
  /\ queryExecution = NoExecution
  /\ formattedResults = << >>
  /\ answer = ""
  /\ err = NoError
  /\ oracleReply = OracleText("")
  /\ executorReply = FailedReply("none", "")
  /\ response = << >>
  /\ audit = << >>
  /\ trace = << >>
  /\ dispatched = << >>
  /\ files = << >>
  /\ fsRefused = FALSE
  /\ schema = DbSnapshot
  /\ lastRefreshTime = 0
  /\ now = 0
  /\ nodeEnv = "production"
  /\ vin \in TimestampResults
  /\ vout = << >>
  /\ NoSchemaCalls

\* a call of formatTimestamps on the result set, then on its own result
RunFormatTimestamps ==
  /\ Len(vout) < 2
  /\ vout' = Append(vout, formatTimestamps(IF vout = << >> THEN vin ELSE vout[Len(vout)]))
  /\ UNCHANGED << reqVars, outVars, envVars, vin, schemaVars >>

NextTimestamps == RunFormatTimestamps

SpecTimestamps == InitTimestamps /\ [][NextTimestamps]_vars

(***************************************************************************)
(* Properties                                                              *)
(***************************************************************************)

\* the rejection outcome of the Validator contract that a result stands for
Outcome(v) ==
  IF v.ok THEN "ok"
  ELSE IF Includes(v.error, "Potentially dangerous operation detected") THEN "DangerousOperation"
  ELSE IF Includes(v.error, "Query must start with SELECT") THEN "NotReadOnly"
  ELSE IF Includes(v.error, "Unbalanced parentheses") THEN "UnbalancedParens"
  ELSE IF Includes(v.error, "Multiple statements detected") THEN "MultipleStatements"
  ELSE IF Includes(v.error, "Comments are not allowed") THEN "CommentInjection"
  ELSE IF Includes(v.error, "Query too long") THEN "TooLong"
  ELSE "none"

\* the positions of event e in the trace
Positions(e) == {i \in 1..Len(trace) : trace[i] = e}

\* the request has terminated: its response has been sent
Terminated == pc = "done"

\* C1: every POST /chat request has attempted exactly one audit append by the
\* time it terminates, wherever it failed (input validation included).
C1_OneAuditPerChatRequest ==
  (kind = "chat" /\ Terminated) => Len(audit) = 1

\* C2: a statement is posted to the executor, by POST /chat or POST /query,
\* only after validateSqlQuery has accepted the request's statement; what is
\* posted is that statement (POST /query) or ensureQueryLimit of it (POST /chat).
C2_DispatchOnlyAfterValidation ==
  /\ Len(dispatched) <= 1
  /\ \A i \in 1..Len(dispatched) :
       /\ kind = "chat" =>
            /\ validateSqlQuery(generatedSql).ok
            /\ dispatched[i] = ensureQueryLimit(generatedSql)
       /\ kind = "query" =>
            /\ query.t = "string"
            /\ validateSqlQuery(query.v).ok
            /\ dispatched[i] = query.v
       /\ \E v \in Positions("validateSqlQuery"), e \in Positions("executeQuery") : v < e

C2_Witness ==
  /\ kind = "chat"
  /\ Len(dispatched) = 1
  /\ dispatched[1] = "SELECT * FROM users LIMIT 100"

\* s contains P (given in upper case) in some letter case
IncludesI(s, P) == \E i \in 1..Len(s) : StartsWithAtI(s, i, P)

\* the denylisted keywords as the Validator contract lists them
DenylistedKeywords ==
  { "DROP", "DELETE", "TRUNCATE", "INSERT", "UPDATE", "ALTER", "CREATE", "GRANT",
    "REVOKE", "RENAME", "LOAD DATA", "INTO OUTFILE", "INFORMATION_SCHEMA", "SLEEP(",
    "BENCHMARK(", "SHUTDOWN" }

\* the statement keywords, which the denylist matches only before white space
StatementKeywords ==
  { "DROP", "DELETE", "TRUNCATE", "INSERT", "UPDATE", "ALTER", "CREATE", "GRANT",
    "REVOKE", "RENAME" }

Validated == vout # NotRun

BeginsWithSelect(s) ==
  \E i \in 1..Len(s) :
    /\ \A j \in 1..(i - 1) : CharAt(s, j) \in WS
    /\ StartsWithAtI(s, i, "SELECT")

DenylistedWords ==
  StatementKeywords \cup {"LOAD", "INTO", "INFORMATION_SCHEMA", "SLEEP", "BENCHMARK", "SHUTDOWN"}

HasInnerSemicolon(s) ==
  \E i \in 1..Len(s) :
    /\ CharAt(s, i) = ";"
    /\ \E j \in (i + 1)..Len(s) : CharAt(s, j) \notin WS

\* C6: a statement with a semicolon anywhere but as the single trailing
\* terminator is rejected.
C6_InnerSemicolonRejected ==
  (Validated /\ HasInnerSemicolon(vin)) => ~vout.ok

\* the statement of C5
StackedDrop == "SELECT 1; DROP TABLE users;"

\* the request is about the statement stmt
RequestStatementIs(stmt) ==
  \/ kind = "chat" /\ generatedSql = stmt
  \/ kind = "query" /\ query = JsString(stmt)

\* the handler has just caught the rejection of the request's statement
StatementRejected ==
  \/ kind = "chat" /\ pc = "Catching" /\ trace[Len(trace)] = "validateSqlQuery"
  \/ kind = "query" /\ pc = "Throwing" /\ trace # << >>

\* the outcome carried by the message of the error in err
ErrOutcome == Outcome([ok |-> FALSE, error |-> err.message])

\* C5 as claimed: SELECT 1; DROP TABLE users; is rejected as MultipleStatements
\* and never reaches the executor.
C5_StackedDropIsMultipleStatements ==
  RequestStatementIs(StackedDrop) =>
    /\ dispatched = << >>
    /\ pc \notin {"Executing", "ExecutingQuery"}
    /\ StatementRejected => ErrOutcome = "MultipleStatements"

\* C5 as amended: SELECT 1; DROP TABLE users; is rejected by the Validator, with
\* the DangerousOperation outcome, and never reaches the executor.
C5_StackedDropIsRejected ==
  RequestStatementIs(StackedDrop) =>
    /\ dispatched = << >>
    /\ pc \notin {"Executing", "ExecutingQuery"}
    /\ StatementRejected => ErrOutcome = "DangerousOperation"

C5_Witness ==
  /\ RequestStatementIs(StackedDrop)
  /\ kind = "chat"
  /\ Terminated
  /\ Positions("validateSqlQuery") # {}
  /\ dispatched = << >>

\* the 200 response of processChat for the present state of the request
SuccessResponse ==
  [status |-> 200,
   body |-> [message |-> answer, sql |-> sql, data |-> formattedResults,
             conversationId |-> conversationId, asynchronous |-> FALSE,
             filename |-> "query_" \o IsoStamp(now) \o "_" \o SubSeq(RequestId.v, 1, 8)
                          \o ".json"]]

\* the 202 response of processChat for the present state of the request
AcceptedResponse ==
  [status |-> 202,
   body |-> [message |-> "Your query is being processed. Results will be available soon.",
             sql |-> sql, data |-> << >>, conversationId |-> conversationId,
             asynchronous |-> TRUE, filename |-> ""]]

\* C7: for a POST /chat request that made its audit append, the status and body
\* sent are those of the path the request took (success, async or error),
\* computed from the request alone, whether or not the INSERT was accepted;
\* exactly one response is sent and the append is not repeated.
C7_ResponseUnalteredByAuditFailure ==
  (kind = "chat" /\ Terminated /\ audit # << >>) =>
    /\ Len(audit) = 1
    /\ Len(response) = 1
    /\ audit[1].response_status \in {"success", "async", "error"}
    /\ audit[1].response_status = "success" => response[1] = SuccessResponse
    /\ audit[1].response_status = "async" => response[1] = AcceptedResponse
    /\ audit[1].response_status = "error" =>
         response[1] = errorHandlerMiddleware(ClassifyError(audit[1].error_message), nodeEnv)

C7_Witness ==
  /\ kind = "chat" /\ Terminated
  /\ Len(audit) = 1 /\ ~audit[1].inserted
  /\ audit[1].response_status = "success"
  /\ response = << SuccessResponse >>

\* a message that is empty or white space only, not a text, or longer than 1000
WhiteSpaceOnly(s) == \A i \in 1..Len(s) : CharAt(s, i) \in WS

RejectableMessage(m) ==
  \/ m.t # "string"
  \/ WhiteSpaceOnly(m.v)
  \/ Len(m.v) > 1000

\* C8: once a POST /chat request is past its input validation, a message that is
\* empty, white space only, not a text or longer than 1000 characters has led to
\* the VALIDATION_ERROR AppError (HTTP 400) with no schema lookup, oracle call or
\* executor call, and the response sent is the 400; a message of exactly 1000
\* characters has passed the validation.
C8_BadMessageRejectedImmediately ==
  (kind = "chat" /\ pc # "ValidatingInput") =>
    /\ RejectableMessage(message) =>
         /\ pc \in {"Throwing", "done"}
         /\ err.app /\ err.errorCode = "VALIDATION_ERROR" /\ err.statusCode = 400
         /\ \A i \in 1..Len(trace) : trace[i] \in {"validateChatMessage", "respond"}
         /\ dispatched = << >>
         /\ Terminated =>
              /\ Len(response) = 1
              /\ response[1].status = 400
              /\ response[1].body.errorCode = "VALIDATION_ERROR"
    /\ (message.t = "string" /\ Len(message.v) = 1000 /\ ~WhiteSpaceOnly(message.v)) =>
         /\ pc = "FetchingSchema" \/ Positions("getSchema") # {}
         /\ \A i \in 1..Len(response) : response[i].status # 400

C8_Witness ==
  /\ kind = "chat" /\ Terminated
  /\ message.t = "string" /\ Len(message.v) = 1001
  /\ Len(response) = 1 /\ response[1].status = 400
  /\ trace = << "validateChatMessage", "respond" >>

\* the executor answered the request's statement with the acknowledgement
Acknowledged ==
  /\ kind = "chat"
  /\ dispatched # << >>
  /\ executorReply.kind = "data"
  /\ ~executorReply.data.falsy
  /\ executorReply.data.message = "Workflow was started"

\* C9: after the executor has acknowledged the statement of a POST /chat request
\* with "Workflow was started", the request only logs and responds: the
\* summarization call is never made, the audit append made carries status async
\* and precedes the response, and the response is HTTP 202 with asynchronous
\* true and no rows.
C9_AcknowledgementEndsAsyncAccepted ==
  Acknowledged =>
    /\ pc \in {"LoggingAsync", "RespondingAsync", "done"}
    /\ queryExecution.asynchronous
    /\ Positions("generateResponse") = {}
    /\ pc # "LoggingAsync" =>
         /\ Len(audit) = 1
         /\ audit[1].response_status = "async"
         /\ audit[1].query_text = dispatched[1]
    /\ Terminated =>
         /\ Len(response) = 1
         /\ response[1].status = 202
         /\ response[1].body.asynchronous
         /\ response[1].body.data = << >>
         /\ \A i \in Positions("logQuery"), j \in Positions("respond") : i < j
         /\ Positions("logQuery") # {}

C9_Witness ==
  /\ Acknowledged /\ Terminated
  /\ response = << AcceptedResponse >>
  /\ Len(audit) = 1 /\ audit[1].response_status = "async" /\ audit[1].inserted

\* the steps of the synchronous success path
SuccessSteps == << "formatTimestamps", "generateResponse", "logQuery", "respond" >>

\* an audit append with status success was made
SuccessLogged == \E i \in 1..Len(audit) : audit[i].response_status = "success"

\* C10: a POST /chat request that sent HTTP 200 made each of timestamp
\* formatting, the summarization call, the audit append and the response exactly
\* once and in that order, the append carries status success, and the body
\* carries the answer of the summarization, the statement dispatched, the
\* formatted rows and the conversation identifier; and whenever an append with
\* status success has been made, the summarization call was made before it and
\* succeeded.
C10_SuccessPathOrder ==
  kind = "chat" =>
    /\ (response # << >> /\ response[1].status = 200) =>
         /\ \A k \in 1..Len(SuccessSteps) : Cardinality(Positions(SuccessSteps[k])) = 1
         /\ \A k \in 1..(Len(SuccessSteps) - 1) :
              \A i \in Positions(SuccessSteps[k]), j \in Positions(SuccessSteps[k + 1]) : i < j
         /\ Len(audit) = 1 /\ audit[1].response_status = "success"
         /\ response[1].body.message = generateResponse(oracleReply).answer
         /\ response[1].body.sql = dispatched[1]
         /\ response[1].body.data = formatTimestamps(queryExecution.results)
         /\ response[1].body.conversationId = conversationId
         /\ conversationId \in {existingConversationId, JsString(MintedUuid)}
    /\ SuccessLogged =>
         /\ ~generateResponse(oracleReply).threw
         /\ answer = generateResponse(oracleReply).answer
         /\ \E i \in Positions("generateResponse") : \A j \in Positions("logQuery") : i < j

C10_Witness ==
  /\ kind = "chat" /\ Terminated
  /\ response = << SuccessResponse >>
  /\ queryExecution.results # << >>
  /\ answer = "There are 2 users."
  /\ trace = << "validateChatMessage", "getSchema", "generateSql", "validateSqlQuery",
                "ensureQueryLimit", "executeQuery", "formatTimestamps",
                "generateResponse", "logQuery", "saveResultsAsJson", "respond" >>

\* the executor answered the statement of a POST /chat request with an empty
\* array of rows
ZeroRowsSync ==
  /\ kind = "chat"
  /\ dispatched # << >>
  /\ executorReply.kind = "data"
  /\ ~executorReply.data.falsy
  /\ executorReply.data.message # "Workflow was started"
  /\ executorReply.data.results = JsArray(<< >>)

\* C11: a POST /chat request whose statement returned zero rows synchronously,
\* and whose summarization did not fail, ends with HTTP 200 and its audit row
\* carries status success and row count 0.
C11_ZeroRowsAuditedWithCountZero ==
  (ZeroRowsSync /\ Terminated /\ Positions("generateResponse") # {} /\ ~oracleReply.threw) =>
    /\ Len(response) = 1 /\ response[1].status = 200
    /\ Len(audit) = 1
    /\ audit[1].response_status = "success"
    /\ audit[1].row_count = 0

\* the request passed its input validation
PastInputValidation == kind = "chat" /\ Positions("getSchema") # {}

\* the request has failed after its input validation and the failure is being
\* or has been surfaced
FailureSurfacing ==
  /\ PastInputValidation
  /\ \/ pc = "Throwing"
     \/ Terminated /\ response # << >> /\ response[1].status \notin {200, 202}

\* C12: a POST /chat request that passed input validation and failed in a later
\* step has, by the time its error is thrown to the error handler, made exactly
\* one audit append, with status error and an empty query text, and that append
\* precedes the response; while the failure is still in the catch block nothing
\* has been sent, and a request that ends without such an append ended with
\* 200 or 202.
C12_FailureAuditedBeforeSurfacing ==
  /\ FailureSurfacing =>
       /\ Len(audit) = 1
       /\ audit[1].response_status = "error"
       /\ audit[1].query_text = ""
       /\ audit[1].error_message # ""
       /\ Cardinality(Positions("logQuery")) = 1
       /\ \A i \in Positions("logQuery"), j \in Positions("respond") : i < j
       /\ trace[Len(trace)] \in {"logQuery", "respond"}
  /\ (kind = "chat" /\ pc = "Catching") => (audit = << >> /\ response = << >>)
  /\ (PastInputValidation /\ Terminated /\ ~FailureSurfacing) =>
       (Len(response) = 1 /\ response[1].status \in {200, 202})

C12_Witness ==
  /\ FailureSurfacing /\ Terminated
  /\ dispatched # << >>
  /\ Positions("generateResponse") = {}
  /\ Len(audit) = 1 /\ ~audit[1].inserted /\ audit[1].response_status = "error"
  /\ response[1].status = 503

\* the Validator rejected the statement generated for the POST /chat request
GeneratedSqlRejected ==
  /\ kind = "chat"
  /\ Positions("validateSqlQuery") # {}
  /\ ~validateSqlQuery(generatedSql).ok

\* C13: when the Validator rejects the statement generated for a POST /chat
\* request, the error response has category VALIDATION_ERROR (HTTP 400) and its
\* message carries the rejection text of the Validator.
C13_SqlRejectionSurfacedVerbatim ==
  (GeneratedSqlRejected /\ Terminated) =>
    /\ Len(response) = 1
    /\ response[1].status = 400
    /\ response[1].body.errorCode = "VALIDATION_ERROR"
    /\ Includes(response[1].body.message, validateSqlQuery(generatedSql).error)

\* the user-facing texts of the catch block of processChat, one per category
GenericMessages ==
  { ClassifyError(m).message :
      m \in {"OpenAI", "n8n", "timeout", ""} }

\* a dependency of the request (oracle or remote executor) failed
DependencyFailed ==
  /\ kind \in {"chat", "query"}
  /\ \/ dispatched # << >> /\ executorReply.kind \in {"refused", "timeout", "status", "other"}
     \/ oracleReply.threw

\* C14: the message of the response to a request whose dependency failed is one
\* of the generic texts, fixed by the category alone: it carries neither the
\* executor URL nor the detail of the underlying failure.
C14_DependencyFailureMessageIsGeneric ==
  (DependencyFailed /\ Terminated) =>
    /\ Len(response) = 1
    /\ response[1].body.message \in GenericMessages
    /\ ~Includes(response[1].body.message, WebhookUrl)
    /\ executorReply.detail # "" => ~Includes(response[1].body.message, executorReply.detail)

\* the executor call, or the latest oracle call, of the POST /chat request timed
\* out
CallTimedOut ==
  /\ kind = "chat"
  /\ \/ dispatched # << >> /\ executorReply.kind = "timeout"
     \/ oracleReply = OracleError("Request timed out.")

\* C15: a POST /chat request whose executor call or oracle call timed out ends
\* with category TIMEOUT (HTTP 504), and the call is made once only.
C15_TimeoutIsItsOwnCategory ==
  (CallTimedOut /\ Terminated) =>
    /\ Len(response) = 1
    /\ response[1].status = 504
    /\ response[1].body.errorCode = "TIMEOUT"
    /\ Len(dispatched) <= 1
    /\ Cardinality(Positions("generateSql")) <= 1
    /\ Cardinality(Positions("generateResponse")) <= 1

\* the suspending steps of the pipeline of processChat, in order
PipelineSteps ==
  << "getSchema", "generateSql", "validateSqlQuery", "executeQuery", "generateResponse" >>

IsPipelineStep(e) == \E k \in 1..Len(PipelineSteps) : PipelineSteps[k] = e

\* C16: within one POST /chat request each of schema lookup, SQL generation,
\* SQL validation, executor call and summarization is invoked at most once, a
\* step only after all the steps before it, and in that order; after a step has
\* failed no step of the sequence follows: what follows the failed step in the
\* call trace is the audit append and the response only.
C16_LinearPipelineAbortsOnFailure ==
  kind = "chat" =>
    /\ \A k \in 1..Len(PipelineSteps) : Cardinality(Positions(PipelineSteps[k])) <= 1
    /\ \A k \in 1..(Len(PipelineSteps) - 1) :
         /\ Positions(PipelineSteps[k + 1]) # {} => Positions(PipelineSteps[k]) # {}
         /\ \A i \in Positions(PipelineSteps[k]), j \in Positions(PipelineSteps[k + 1]) : i < j
    /\ pc = "Catching" => IsPipelineStep(trace[Len(trace)])
    /\ FailureSurfacing =>
         \E n \in Positions("logQuery") :
           /\ n > 1 /\ IsPipelineStep(trace[n - 1])
           /\ \A i \in (n + 1)..Len(trace) : trace[i] = "respond"
    /\ (Positions("generateSql") # {} /\ Positions("generateResponse") = {}
          /\ generateSql(oracleReply).threw) =>
         /\ Positions("validateSqlQuery") = {}
         /\ Positions("executeQuery") = {}
    /\ GeneratedSqlRejected =>
         /\ Positions("executeQuery") = {}
         /\ Positions("generateResponse") = {}
    /\ (dispatched # << >> /\ executeQuery(sql, executorReply, 0, TRUE, "").threw) =>
         Positions("generateResponse") = {}

C16_Witness ==
  /\ kind = "chat" /\ Terminated
  /\ executeQuery(sql, executorReply, 0, TRUE, "").threw
  /\ trace = << "validateChatMessage", "getSchema", "generateSql", "validateSqlQuery",
                "ensureQueryLimit", "executeQuery", "logQuery", "respond" >>

\* the terminal state of a terminated request, read off its response
TerminalState ==
  IF response[1].status = 200 THEN "Done"
  ELSE IF response[1].status = 202 THEN "AsyncAccepted"
  ELSE "Failed"

\* C17: when every call of the request returns or fails, a POST /chat request
\* eventually terminates with exactly one response sent; at no time has it sent
\* more than one response, a failure (the error thrown to the error handler) is
\* answered by one response, and once terminated nothing more happens for the
\* request.
C17_ChatTerminatesWithOneResponse ==
  /\ (kind = "chat") ~> (Terminated /\ Len(response) = 1
                           /\ TerminalState \in {"Done", "AsyncAccepted", "Failed"})
  /\ [](kind = "chat" => Len(response) <= 1)
  /\ [](kind = "chat" /\ response # << >> => Terminated)
  /\ [][(kind = "chat" /\ pc = "Throwing") =>
          (pc' = "done" /\ Len(response') = 1 /\ response'[1].status >= 400)]_vars
  /\ [][~Terminated]_vars

C17_Witness ==
  /\ kind = "chat" /\ Terminated
  /\ Len(response) = 1
  /\ TerminalState = "Failed"
  /\ Positions("respond") = {Len(trace)}

\* C18: a getSchema call starts a refresh (issues the table-listing query)
\* exactly when no snapshot exists, forceRefresh is set, or more than one hour
\* has passed since the last refresh; otherwise it returns the cached snapshot
\* at once, with no query issued and the snapshot and the last-refreshed time
\* unchanged.
C18_RefreshExactlyWhenDue ==
  [][\A c \in Callers :
       (callers[c].pc = "idle" /\ callers'[c].pc # "idle") =>
         IF schema.null \/ callers'[c].forceRefresh \/ now - lastRefreshTime > 3600000
         THEN /\ callers'[c].pc = "getTables"
              /\ callers'[c].issued = 1
         ELSE /\ callers'[c].pc = "returned"
              /\ callers'[c].issued = 0
              /\ ~callers'[c].result.threw
              /\ callers'[c].result.schema = schema
              /\ schema' = schema
              /\ lastRefreshTime' = lastRefreshTime]_vars

C18_Witness ==
  \E c \in Callers :
    /\ callers[c].pc = "returned"
    /\ ~callers[c].forceRefresh
    /\ callers[c].issued = 0
    /\ ~schema.null
    /\ callers[c].result.schema = schema
    /\ now - lastRefreshTime = RefreshIntervalMs

\* C19: the step in which an introspection query of a refresh fails raises
\* "Schema discovery failed" and leaves the cached snapshot and the
\* last-refreshed time as they are; unless another call published meanwhile,
\* they are what they were when the failed refresh started, however many
\* tables it had introspected; and the cache never holds a partial table list.
C19_FailedRefreshPublishesNothing ==
  /\ [][\A c \in Callers :
          (callers[c].pc # "failed" /\ callers'[c].pc = "failed") =>
            /\ callers[c].pc \in {"getTables", "getColumns", "getRelationships"}
            /\ callers'[c].result.threw
            /\ callers'[c].result.error = "Schema discovery failed"
            /\ schema' = schema
            /\ lastRefreshTime' = lastRefreshTime]_vars
  /\ [](\A c \in Callers :
          (callers[c].pc = "failed" /\ published = callers[c].publishedAtStart) =>
            /\ schema = callers[c].before.schema
            /\ lastRefreshTime = callers[c].before.lastRefreshTime)
  /\ [](~schema.null =>
          /\ Len(schema.tables) = Len(TableNames)
          /\ \A i \in 1..Len(TableNames) : schema.tables[i].name = TableNames[i])

C19_Witness ==
  \E c \in Callers :
    /\ callers[c].pc = "failed"
    /\ Len(callers[c].assembled) >= 1
    /\ ~callers[c].before.schema.null
    /\ schema = callers[c].before.schema
    /\ lastRefreshTime = callers[c].before.lastRefreshTime

\* C20: a getSchema call without forceRefresh that started when a snapshot was
\* published ends by returning a snapshot, never by raising, whatever the
\* database does.
C20_UnforcedCallReturnsPreviousSnapshot ==
  \A c \in Callers :
    (/\ callers[c].pc \in {"returned", "failed"}
     /\ ~callers[c].forceRefresh
     /\ ~callers[c].before.schema.null) =>
      /\ callers[c].pc = "returned"
      /\ ~callers[c].result.threw
      /\ ~callers[c].result.schema.null

\* a call of getSchema that is refreshing
Refreshing(c) == callers[c].pc \in {"getTables", "getColumns", "getRelationships"}

\* the table list covers every table of the database, in the order listed
FullTableList(tables) ==
  /\ Len(tables) = Len(TableNames)
  /\ \A i \in 1..Len(TableNames) : tables[i].name = TableNames[i]

\* C21: with refreshes overlapping in every way, every refresh that started
\* ends (returning, or raising when one of its queries failed); the cached
\* snapshot is absent or a full table list; and the snapshot changes only in
\* the step in which one refresh writes, to exactly the tables that refresh
\* assembled itself: the tables it had pushed before plus its last table, so
\* the snapshot in effect is that of the refresh that wrote last, never a
\* mixture.
C21_ConcurrentRefreshesPublishWhole ==
  /\ \A c \in Callers :
       Refreshing(c) ~> (callers[c].pc \in {"returned", "failed"})
  /\ [](schema.null \/ FullTableList(schema.tables))
  /\ [][schema' # schema =>
          \E c \in Callers :
            /\ callers[c].pc = "getRelationships"
            /\ callers'[c].pc = "returned"
            /\ ~callers'[c].result.threw
            /\ schema' = Snapshot(callers'[c].assembled)
            /\ callers'[c].result.schema = schema'
            /\ FullTableList(callers'[c].assembled)
            /\ SubSeq(callers'[c].assembled, 1, Len(callers[c].assembled))
                 = callers[c].assembled
            /\ \A d \in Callers \ {c} : callers'[d] = callers[d]]_vars

\* two forced refreshes that both started before either wrote have both
\* returned, with different snapshots, and the cache holds the snapshot of one
C21_Witness ==
  /\ \A c \in Callers : callers[c].pc = "returned" /\ callers[c].forceRefresh
  /\ callers[1].publishedAtStart = callers[2].publishedAtStart
  /\ published = callers[1].publishedAtStart + 2
  /\ callers[1].result.schema # callers[2].result.schema
  /\ schema = callers[1].result.schema

\* the text holds LIMIT in some letter case, then white space, then a digit
ContainsLimitClause(s) ==
  \E i \in 1..Len(s), j \in 1..Len(s) :
    /\ j >= i + 6
    /\ \A k \in 0..4 : UpperChar(CharAt(s, i + k)) = CharAt("LIMIT", k + 1)
    /\ \A k \in (i + 5)..(j - 1) : CharAt(s, k) \in WS
    /\ CharAt(s, j) \in Digits

\* t is s without its leading and trailing white space
IsTrimOf(t, s) ==
  IF WhiteSpaceOnly(s) THEN t = ""
  ELSE \E i \in 1..Len(s), j \in 1..Len(s) :
         /\ i <= j
         /\ t = SubSeq(s, i, j)
         /\ CharAt(s, i) \notin WS
         /\ CharAt(s, j) \notin WS
         /\ \A k \in 1..(i - 1) : CharAt(s, k) \in WS
         /\ \A k \in (j + 1)..Len(s) : CharAt(s, k) \in WS

\* out is the trimmed statement with " LIMIT 100" at its end, or before its
\* trailing semicolon
LimitAdded(out, s) ==
  \E body \in {""} \cup {SubSeq(out, 1, n) : n \in 1..Len(out)} :
    /\ IsTrimOf(body, s) \/ IsTrimOf(body \o ";", s)
    /\ IF IsTrimOf(body \o ";", s)
       THEN out = body \o " LIMIT 100;"
       ELSE out = body \o " LIMIT 100"

\* C22: ensureQueryLimit returns the statement unchanged when it holds a LIMIT
\* with a numeric value in any letter case, whatever the value; otherwise it
\* returns the trimmed statement with " LIMIT 100" appended, or inserted
\* before a trailing semicolon; "SELECT * FROM users" becomes
\* "SELECT * FROM users LIMIT 100"; and applying it to its own result changes
\* nothing.
C22_EnsureQueryLimit ==
  /\ Len(vout) >= 1 =>
       /\ IF ContainsLimitClause(vin) THEN vout[1] = vin ELSE LimitAdded(vout[1], vin)
       /\ vin = "SELECT * FROM users" => vout[1] = "SELECT * FROM users LIMIT 100"
  /\ Len(vout) = 2 => vout[2] = vout[1]

\* a statement with a lower-case limit above 100 is returned as it is, twice
C22_Witness ==
  /\ vin = "SELECT * FROM users limit 500"
  /\ vout = << vin, vin >>

\* C23: every statement POST /chat hands to the executor holds a LIMIT with a
\* numeric value: the generated statement as it is when it holds one already,
\* otherwise the statement with LIMIT 100 at its end or before its trailing
\* semicolon.
C23_DispatchedStatementHasLimit ==
  [][(kind = "chat" /\ dispatched' # dispatched) =>
       /\ dispatched' = Append(dispatched, sql)
       /\ ContainsLimitClause(sql)
       /\ IF ContainsLimitClause(generatedSql)
          THEN sql = generatedSql
          ELSE LimitAdded(sql, generatedSql)]_vars

\* a generated statement without a limit, terminated by a semicolon, was
\* dispatched with LIMIT 100 before the semicolon
C23_Witness ==
  /\ kind = "chat"
  /\ generatedSql = "SELECT id FROM users;"
  /\ dispatched = << "SELECT id FROM users LIMIT 100;" >>

\* C24: in the step in which executeQuery handles a payload the executor
\* answered with, it makes (a) a result with no rows, row count 0 and the
\* asynchronous flag set, and no error, of an acknowledgement without a results
\* array; (b) a protocol error of a payload with no results field or one that
\* is not a list; (c) otherwise the rows, with rowCount their number and the
\* asynchronous flag unset; so a payload with a results array is never
\* asynchronous.
C24_PayloadClassification ==
  [][(/\ dispatched' # dispatched
      /\ executorReply'.kind = "data"
      /\ ~executorReply'.data.falsy) =>
       LET data == executorReply'.data
       IN  IF data.results.t = "array"
           THEN /\ pc' \in {"Summarizing", "LoggingQuery"}
                /\ err' = err
                /\ ~queryExecution'.asynchronous
                /\ queryExecution'.results = data.results.rows
                /\ queryExecution'.rowCount = Len(data.results.rows)
           ELSE IF data.message = "Workflow was started"
           THEN /\ pc' \in {"LoggingAsync", "LoggingQuery"}
                /\ err' = err
                /\ queryExecution'.asynchronous
                /\ queryExecution'.results = << >>
                /\ queryExecution'.rowCount = 0
           ELSE /\ pc' \in {"Catching", "Throwing"}
                /\ queryExecution' = queryExecution
                /\ StartsWith(err'.message, "Failed to execute query via n8n: n8n ")]_vars

\* the executor answered with a results array and no acknowledgement message
WellFormedSyncPayload(reply) ==
  /\ reply.kind = "data"
  /\ ~reply.data.falsy
  /\ reply.data.results.t = "array"
  /\ reply.data.message # "Workflow was started"

\* C25: a failed write of the JSON artifact fails nothing: the step in which
\* executeQuery handles a well-formed synchronous payload returns its rows and
\* raises nothing, whether or not a file was written; the step of POST /chat
\* that saves the artifact goes on to the response with no error, whether or
\* not a file was written; and a POST /chat request that reached that step
\* ends with one HTTP 200 response carrying the summary and the rows.
C25_ArtifactFailureNeverFailsQuery ==
  /\ [][(dispatched' # dispatched /\ WellFormedSyncPayload(executorReply')) =>
          /\ pc' \in {"Summarizing", "LoggingQuery"}
          /\ err' = err
          /\ queryExecution'.results = executorReply'.data.results.rows
          /\ queryExecution'.rowCount = Len(executorReply'.data.results.rows)]_vars
  /\ [][pc = "SavingResults" =>
          /\ pc' = "Responding"
          /\ err' = err
          /\ answer' = answer
          /\ formattedResults' = formattedResults]_vars
  /\ []((kind = "chat" /\ Terminated /\ Positions("saveResultsAsJson") # {}) =>
          /\ Len(response) = 1
          /\ response[1].status = 200
          /\ response[1].body.message = answer
          /\ response[1].body.data = formattedResults)

\* a POST /chat request whose artifact writes all failed ended with HTTP 200
C25_Witness ==
  /\ kind = "chat"
  /\ Terminated
  /\ Positions("saveResultsAsJson") # {}
  /\ files = << >>
  /\ fsRefused
  /\ queryExecution.rowCount = 2
  /\ Len(response) = 1
  /\ response[1].status = 200

\* the request ended with the rows of a synchronous execution
SynchronousSuccess ==
  /\ Len(response) = 1
  /\ response[1].status = 200
  /\ ~queryExecution.asynchronous

\* C26: when the file system refused no write, a request (POST /chat or
\* POST /query) that ended with a successful synchronous query has written
\* exactly one JSON artifact, and any other request has written none.
C26_OneArtifactPerSynchronousSuccess ==
  (Terminated /\ ~fsRefused) =>
    Len(files) = IF SynchronousSuccess THEN 1 ELSE 0

\* what holds of POST /chat alone: the write made by executeQuery fails, the
\* one made by processChat is the only artifact
ChatWritesOneArtifact ==
  (kind = "chat" /\ Terminated /\ ~fsRefused) =>
    Len(files) = IF SynchronousSuccess THEN 1 ELSE 0

\* C27: a POST /query request that has ended, whether rejected as malformed,
\* rejected by validateSqlQuery, failed in the executor or answered with rows,
\* has attempted exactly one audit append.
C27_OneAuditPerQueryRequest ==
  (kind = "query" /\ Terminated) => Len(audit) = 1

\* what holds instead: one append when the request was answered with HTTP 200,
\* none otherwise
QueryAuditedOnlyOnSuccess ==
  (kind = "query" /\ Terminated) =>
    Len(audit) = IF response[1].status = 200 THEN 1 ELSE 0

\* the identifier processChat works under: the one the caller supplied, or a
\* minted one when the caller supplied none (or an empty one)
AssignedConversationId ==
  IF existingConversationId.t = "undefined" \/ existingConversationId.v = ""
  THEN JsString(MintedUuid)
  ELSE existingConversationId

\* C28: the conversation identifier of a POST /chat request is assigned in the
\* step that accepts the message, before the schema lookup and every other
\* collaborator call, and never changes afterwards; from then on it is the
\* identifier the caller supplied, or a minted one when none was supplied, and
\* it is the identifier carried by the 200 or 202 response.
C28_ConversationIdFixedEarly ==
  /\ [][conversationId' # conversationId =>
          /\ kind = "chat"
          /\ pc = "ValidatingInput"
          /\ pc' = "FetchingSchema"
          /\ trace = << >>
          /\ conversationId = JsUndefined]_vars
  /\ []((kind = "chat" /\ (pc = "FetchingSchema" \/ PastInputValidation)) =>
          /\ conversationId = AssignedConversationId
          /\ \A i \in 1..Len(response) :
               response[i].status \in {200, 202} =>
                 response[i].body.conversationId = AssignedConversationId)

\* a request that supplied an identifier was answered 202 under it
C28_Witness ==
  /\ kind = "chat"
  /\ Terminated
  /\ existingConversationId = JsString("conv-1")
  /\ Len(response) = 1
  /\ response[1].status = 202
  /\ response[1].body.conversationId = JsString("conv-1")

\* a request that supplied no identifier was answered 200 under a minted one
C28_WitnessMinted ==
  /\ kind = "chat"
  /\ Terminated
  /\ existingConversationId = JsUndefined
  /\ Len(response) = 1
  /\ response[1].status = 200
  /\ response[1].body.conversationId = JsString(MintedUuid)

\* C29: in the step that appends an audit record with status success or async,
\* the query text is the statement dispatched to the executor for the request,
\* made from a statement validateSqlQuery accepted (for POST /chat the generated
\* statement with its limit ensured, for POST /query the statement received); an
\* audit record with status error appended by POST /chat has an empty query
\* text.  So a rejected statement is never recorded as a successful query.
C29_AuditQueryTextIsDispatchedStatement ==
  [][audit' # audit =>
       LET row == audit'[Len(audit')]
       IN  /\ audit' = Append(audit, row)
           /\ row.response_status \in {"success", "async", "error"}
           /\ row.response_status \in {"success", "async"} =>
                /\ dispatched # << >>
                /\ row.query_text = dispatched[Len(dispatched)]
                /\ kind = "chat" =>
                     /\ validateSqlQuery(generatedSql).ok
                     /\ row.query_text = ensureQueryLimit(generatedSql)
                /\ kind = "query" =>
                     /\ validateSqlQuery(query.v).ok
                     /\ row.query_text = query.v
           /\ (kind = "chat" /\ row.response_status = "error") =>
                row.query_text = ""]_vars

\* a generated statement the Validator rejected left one audit record, with
\* status error and an empty query text
C29_Witness ==
  /\ kind = "chat"
  /\ generatedSql = "DROP TABLE users"
  /\ dispatched = << >>
  /\ Len(audit) = 1
  /\ audit[1].response_status = "error"
  /\ audit[1].query_text = ""

\* a dispatched statement left one audit record with status success and the
\* dispatched text
C29_WitnessSuccess ==
  /\ kind = "chat"
  /\ generatedSql = "SELECT * FROM users"
  /\ Len(audit) = 1
  /\ audit[1].response_status = "success"
  /\ audit[1].query_text = "SELECT * FROM users LIMIT 100"

\* the text holds the two characters pair next to each other
HasPair(s, pair) ==
  \E i \in 1..(Len(s) - 1) : CharAt(s, i) = CharAt(pair, 1) /\ CharAt(s, i + 1) = CharAt(pair, 2)

\* none of the six checks of validateSqlQuery fires on the text
TriggersNoCheck(s) ==
  /\ \A n \in 1..Len(dangerousPatterns) : ~PatternTest(s, dangerousPatterns[n])
  /\ BeginsWithSelect(s)
  /\ CountChar(s, "(") = CountChar(s, ")")
  /\ ~(CountChar(s, ";") > 0 /\ ~EndsWith(Trim(s), ";"))
  /\ ~HasPair(s, "--")
  /\ ~HasPair(s, "/*")
  /\ Len(s) <= 2000

\* C30: validateSqlQuery rejects every statement whose numbers of ( and of )
\* differ, every statement that holds -- or /*, and every statement longer
\* than 2000 characters; and it accepts a statement exactly when none of its
\* six checks fires, a statement of exactly 2000 characters included.
C30_RemainingChecksRejectAndNothingElse ==
  Validated =>
    /\ CountChar(vin, "(") # CountChar(vin, ")") => ~vout.ok
    /\ (HasPair(vin, "--") \/ HasPair(vin, "/*")) => ~vout.ok
    /\ Len(vin) > 2000 => ~vout.ok
    /\ vout.ok <=> TriggersNoCheck(vin)

\* a statement of exactly 2000 characters was accepted
C30_Witness ==
  /\ Validated
  /\ Len(vin) = 2000
  /\ vout.ok

\* a statement of 2001 characters that fires no other check was rejected as
\* too long
C30_WitnessTooLong ==
  /\ Validated
  /\ Len(vin) = 2001
  /\ vout = [ok |-> FALSE, error |-> "SQL validation failed: Query too long"]

\* generateSql was called and the chat-completion call returned vin
Extracted == vout # NotRun /\ vout.error # "Failed to generate SQL: Connection error."

\* the index of the first occurrence of opener in s that has a closing fence
\* after it, and the index of that closing fence; 0 when there is none
OpenerAt(s, opener) ==
  IF \E i \in 1..Len(s) : StartsWithAt(s, i, opener)
  THEN CHOOSE i \in 1..Len(s) :
         StartsWithAt(s, i, opener) /\ \A k \in 1..(i - 1) : ~StartsWithAt(s, k, opener)
  ELSE 0

CloserAt(s, opener) ==
  IF OpenerAt(s, opener) # 0
     /\ \E j \in (OpenerAt(s, opener) + Len(opener))..Len(s) : StartsWithAt(s, j, Fence)
  THEN CHOOSE j \in (OpenerAt(s, opener) + Len(opener))..Len(s) :
         /\ StartsWithAt(s, j, Fence)
         /\ \A k \in (OpenerAt(s, opener) + Len(opener))..(j - 1) : ~StartsWithAt(s, k, Fence)
  ELSE 0

\* the text from index a to index b of s, trimmed
Span(s, a, b) == IF a > b THEN "" ELSE Trim(SubSeq(s, a, b))

\* the text between the opener and its closing fence, trimmed
BlockText(s, opener) ==
  IF CloserAt(s, opener) = 0 THEN ""
  ELSE Span(s, OpenerAt(s, opener) + Len(opener), CloserAt(s, opener) - 1)

\* the length of the language tag that directly follows the opening fence: the
\* characters up to the end of the line, when none of them is white space
TagLen(s) ==
  LET from == OpenerAt(s, Fence) + 3
      nl == IndexOf(s, "\n", from)
  IN  IF nl = 0 \/ nl > CloserAt(s, Fence) THEN 0
      ELSE IF \E k \in from..(nl - 1) : CharAt(s, k) \in WS THEN 0
      ELSE nl - from

\* the contents of the first fenced code block: what stands between the
\* fences, without the language tag of the opening fence
BlockContents(s) ==
  IF CloserAt(s, Fence) = 0 THEN ""
  ELSE Span(s, OpenerAt(s, Fence) + 3 + TagLen(s), CloserAt(s, Fence) - 1)

\* the raw text without the lines that begin with a prose lead-in, trimmed
WithoutProseLines(s) ==
  Trim(JoinLines(SelectSeq(SplitLines(s),
         LAMBDA line : /\ ~StartsWith(line, "Here") /\ ~StartsWith(line, "This")
                       /\ ~StartsWith(line, "The") /\ ~StartsWith(line, "I")
                       /\ ~StartsWith(line, "Note"))))

\* the statement generateSql is to return for the text s, "" standing for
\* GenerationFailure, with rule (b) yielding block
ExtractionIs(s, block) ==
  LET statement == IF BlockText(s, Fence \o "sql") # "" THEN BlockText(s, Fence \o "sql")
                   ELSE IF block # "" THEN block
                   ELSE WithoutProseLines(s)
  IN  IF statement = ""
      THEN /\ vout.threw
           /\ vout.error = "Failed to generate SQL: Failed to generate valid SQL query"
      ELSE /\ ~vout.threw
           /\ vout.sql = statement

\* C31: generateSql returns the statement extracted by the first rule that
\* yields one: (a) the contents of a fenced sql block, (b) the contents of any
\* fenced code block, (c) the raw text without the lines that begin with Here,
\* This, The, I or Note; it fails with "Failed to generate valid SQL query"
\* when the statement is empty and never returns an empty statement.
C31_ExtractionByFirstApplicableRule ==
  Extracted =>
    /\ ExtractionIs(vin, BlockContents(vin))
    /\ ~vout.threw => vout.sql # ""

\* what holds instead: rule (b) yields everything between the first fence and
\* the next one, the language tag of the opening fence included
ExtractionKeepsLanguageTag ==
  Extracted =>
    /\ ExtractionIs(vin, BlockText(vin, Fence))
    /\ ~vout.threw => vout.sql # ""

\* the rows listed in a text, counted by their opening braces
RowsListed(text) == CountChar(text, "{")

\* C32: formatQueryResults returns "No results found." for an empty result
\* set, the listing of all rows for a result set of 1 to 10 rows, and for a
\* larger one the row count followed by a sample of exactly the first 5 rows.
C32_FullListingUpToTenRows ==
  vout # NotRun =>
    IF Len(vin) = 0 THEN vout.text = "No results found."
    ELSE IF Len(vin) \in 1..10
    THEN /\ vout.text = JsonStringify(vin)
         /\ RowsListed(vout.text) = Len(vin)
    ELSE /\ vout.text = ToString(Len(vin))
                        \o " rows returned. Here is a sample of the first 5 rows:\n      \n"
                        \o JsonStringify(<< vin[1], vin[2], vin[3], vin[4], vin[5] >>)
         /\ RowsListed(vout.text) = 5

\* a result set of exactly ten rows was listed in full
C32_Witness ==
  /\ vout # NotRun
  /\ Len(vin) = 10
  /\ RowsListed(vout.text) = 10

\* a result set of eleven rows was summarized by its first five
C32_WitnessSample ==
  /\ vout # NotRun
  /\ Len(vin) = 11
  /\ StartsWith(vout.text, "11 rows returned.")
  /\ RowsListed(vout.text) = 5

\* the text begins with the shape YYYY-MM-DDTHH:MM:SS
BeginsWithTimestamp(text) ==
  /\ Len(text) >= 19
  /\ \A i \in {1, 2, 3, 4, 6, 7, 9, 10, 12, 13, 15, 16, 18, 19} : CharAt(text, i) \in Digits
  /\ CharAt(text, 5) = "-" /\ CharAt(text, 8) = "-" /\ CharAt(text, 11) = "T"
  /\ CharAt(text, 14) = ":" /\ CharAt(text, 17) = ":"

\* the canonical text YYYY-MM-DD HH:MM:SS of a UTC timestamp
CanonicalText(text) == SubSeq(text, 1, 10) \o " " \o SubSeq(text, 12, 19)

\* out is rows with every timestamp replaced by what canonical makes of it
\* and everything else as it was
TimestampsReplaced(out, rows, canonical(_)) ==
  /\ Len(out) = Len(rows)
  /\ \A i \in 1..Len(rows) :
       /\ DOMAIN out[i] = DOMAIN rows[i]
       /\ \A key \in DOMAIN rows[i] :
            out[i][key] = IF rows[i][key].t = "string" /\ BeginsWithTimestamp(rows[i][key].v)
                          THEN JsString(canonical(rows[i][key].v))
                          ELSE rows[i][key]

\* C33: formatTimestamps returns as many rows with the same keys, every text
\* that begins with the shape YYYY-MM-DDTHH:MM:SS replaced by the canonical
\* text YYYY-MM-DD HH:MM:SS and every other value unchanged; applied to its own
\* result it changes nothing.
C33_TimestampsMadeCanonical ==
  /\ Len(vout) >= 1 => TimestampsReplaced(vout[1], vin, CanonicalText)
  /\ Len(vout) = 2 => vout[2] = vout[1]

\* the text formatDate makes of a timestamp: canonical when its fields denote
\* a date, "Invalid Date" otherwise
CanonicalOrInvalid(text) ==
  IF /\ TwoDigits(text, 6) \in 1..12 /\ TwoDigits(text, 9) \in 1..31
     /\ TwoDigits(text, 12) <= 23 /\ TwoDigits(text, 15) <= 59 /\ TwoDigits(text, 18) <= 59
  THEN CanonicalText(text)
  ELSE "Invalid Date"

\* what holds instead: a timestamp-shaped text that denotes no date is
\* replaced by "Invalid Date"
TimestampsMadeCanonicalOrInvalid ==
  /\ Len(vout) >= 1 => TimestampsReplaced(vout[1], vin, CanonicalOrInvalid)
  /\ Len(vout) = 2 => vout[2] = vout[1]

\* the step publishes the snapshot assembled by the refresh of c
Publishes(c) ==
  /\ Refreshing(c)
  /\ callers'[c].pc = "returned"
  /\ published' = published + 1

\* the cache holds the snapshot that the refresh of d, still to be taken by
\* its caller, published
HoldsSnapshotOf(d) ==
  /\ callers[d].pc = "returned"
  /\ callers[d].forceRefresh
  /\ ~schema.null
  /\ schema = callers[d].result.schema

\* C34: a refresh that started earlier never overwrites the snapshot published
\* by a refresh that started later: of two overlapping refreshes, the one left
\* in the cache is the one whose database reads began last.
C34_EarlierRefreshNeverOverwritesLater ==
  [][\A c \in Callers, d \in Callers :
       (Publishes(c) /\ HoldsSnapshotOf(d) /\ callers[d].started > callers[c].started)
         => schema' = schema]_vars

\* what holds instead: the cache holds the snapshot of the refresh that
\* published last, whenever it started
C34_LastPublishedSnapshotIsCached ==
  [][\A c \in Callers : Publishes(c) => schema' = callers'[c].result.schema]_vars

\* a refresh has overwritten the snapshot of a refresh that started after it
\* with the columns of a table as they were before a change of the database
\* that the other one saw
C34_Regressed ==
  \E c \in Callers, d \in Callers :
    /\ callers[c].pc = "returned" /\ callers[d].pc = "returned"
    /\ callers[d].started > callers[c].started
    /\ schema = callers[c].result.schema
    /\ published = callers[c].publishedAtStart + 2
    /\ \E i \in 1..Len(schema.tables) :
         schema.tables[i].columns < callers[d].result.schema.tables[i].columns

\* the request was recorded or answered as a completed successful query
CompletedAsSuccess ==
  \/ \E i \in 1..Len(audit) : audit[i].response_status = "success"
  \/ \E i \in 1..Len(response) : response[i].status = 200

\* C35: on POST /chat and on POST /query an audit entry with status success is
\* written, and HTTP 200 is answered, only for an execution whose rows came
\* back synchronously: an acknowledgement of the executor (asynchronous set) is
\* never recorded or answered as a completed successful query.
C35_AcknowledgementNeverCompletedAsSuccess ==
  CompletedAsSuccess => ~queryExecution.asynchronous

\* what holds instead: the statement holds on POST /chat
ChatAcknowledgementNeverCompletedAsSuccess ==
  (kind = "chat" /\ CompletedAsSuccess) => ~queryExecution.asynchronous

\* POST /query has answered an acknowledgement of the executor with HTTP 200
\* and no rows, after a success entry in the audit log
C35_QueryAcknowledgementAnswered200 ==
  /\ kind = "query" /\ pc = "done"
  /\ queryExecution.asynchronous
  /\ Len(audit) = 1 /\ audit[1].response_status = "success"
  /\ Len(response) = 1 /\ response[1].status = 200
  /\ response[1].body.results = << >>

\* the step is the catch block of processChat classifying the failure of the
\* call named last in the trace
CatchesFailureOf(calls) ==
  /\ kind = "chat" /\ pc = "Catching" /\ pc' = "Throwing"
  /\ trace[Len(trace)] \in calls

\* C37: the category POST /chat surfaces names the failing dependency: a failed
\* oracle call (generateSql, also when no usable statement came back, or
\* generateResponse) is never categorized DATABASE_ERROR, and a failed
\* executor call is never categorized SERVICE_UNAVAILABLE.
C37_CategoryNamesFailingDependency ==
  [][/\ CatchesFailureOf({"generateSql", "generateResponse"})
          => err'.errorCode # "DATABASE_ERROR"
     /\ CatchesFailureOf({"executeQuery"})
          => err'.errorCode # "SERVICE_UNAVAILABLE"]_vars

\* what holds instead: a failed oracle call is categorized DATABASE_ERROR
\* exactly when the oracle answered without a usable statement
C37_DatabaseErrorForUnusableStatement ==
  [][/\ CatchesFailureOf({"generateSql", "generateResponse"})
          => (err'.errorCode = "DATABASE_ERROR"
                <=> (trace[Len(trace)] = "generateSql" /\ ~oracleReply.threw))
     /\ CatchesFailureOf({"executeQuery"})
          => err'.errorCode # "SERVICE_UNAVAILABLE"]_vars

\* the request was answered DATABASE_ERROR though the executor was never called
C37_OracleFailureAnsweredDatabaseError ==
  /\ kind = "chat" /\ pc = "done"
  /\ dispatched = << >>
  /\ ~oracleReply.threw
  /\ Len(trace) >= 3 /\ trace[Len(trace) - 2] = "generateSql"
  /\ Len(response) = 1
  /\ response[1].body.errorCode = "DATABASE_ERROR"

\* a results artifact of that name was written for the request
ArtifactWritten(filename) ==
  \E j \in 1..Len(files) : files[j].filename = filename

\* C38: the filename field of a POST /chat 200 response is present only if a
\* results artifact was written for the request, and it is then the name of
\* the file saveResultsAsJson wrote.
C38_FilenameNamesWrittenArtifact ==
  \A i \in 1..Len(response) :
    (kind = "chat" /\ response[i].status = 200 /\ response[i].body.filename # "")
      => ArtifactWritten(response[i].body.filename)

\* what holds instead: the field names the written artifact when the file
\* system accepted the write and the clock read the same millisecond for the
\* file name and for the response
C38_FilenameNamesArtifactWithinMillisecond ==
  [][(kind = "chat" /\ pc = "Responding" /\ pc' = "done" /\ ~fsRefused /\ now' = now)
       => ArtifactWritten(response'[Len(response')].body.filename)]_vars

\* the response names a file though the file system refused the write and no
\* artifact exists
C38_FilenameWithoutArtifact ==
  /\ kind = "chat" /\ pc = "done"
  /\ Len(response) = 1 /\ response[1].status = 200
  /\ response[1].body.filename # ""
  /\ fsRefused /\ files = << >>

\* the response names another file than the one written
C38_FilenameOfAnotherName ==
  /\ kind = "chat" /\ pc = "done"
  /\ Len(response) = 1 /\ response[1].status = 200
  /\ Len(files) = 1
  /\ response[1].body.filename # files[1].filename

\* C36: the statement POST /chat dispatches satisfies every check of the
\* Validator: for every statement validateSqlQuery accepts, it also accepts
\* ensureQueryLimit of the statement, the bound of 2000 characters included.
C36_LimitedStatementStaysValid ==
  (Validated /\ vout.ok) => validateSqlQuery(ensureQueryLimit(vin)).ok

\* what holds instead: the statement with its limit is accepted unless the
\* added clause takes it past 2000 characters or completes a denylisted
\* keyword the statement ends in (the pattern wants white space after it)
C36_LimitedStatementValidUnlessTooLong ==
  (Validated /\ vout.ok) =>
    (validateSqlQuery(ensureQueryLimit(vin)).ok
       <=> /\ Len(ensureQueryLimit(vin)) <= MaxSqlLength
           /\ DangerousMatch(ensureQueryLimit(vin), 1) = "")

\* an accepted statement of 2000 characters is dispatched with 2010
C36_DispatchedPastTheBound ==
  /\ Validated /\ vout.ok
  /\ Len(vin) = MaxSqlLength
  /\ Len(ensureQueryLimit(vin)) = MaxSqlLength + 10
  /\ validateSqlQuery(ensureQueryLimit(vin)).error = "SQL validation failed: Query too long"

\* an accepted statement ending in a denylisted keyword is dispatched as a
\* statement the Validator rejects as dangerous
C36_DispatchedWithKeyword ==
  /\ Validated /\ vout.ok
  /\ vin = "SELECT 1TRUNCATE"
  /\ ensureQueryLimit(vin) = "SELECT 1TRUNCATE LIMIT 100"
  /\ validateSqlQuery(ensureQueryLimit(vin)).error
       = "SQL validation failed: Potentially dangerous operation detected (TRUNCATE )"

\* the lines a SELECT statement is made of in the generated texts
StatementLines == { "SELECT id", "INNER JOIN orders" }

\* the text has no code fence and is a SELECT statement spread over several
\* lines
IsMultiLineStatement(s) ==
  LET lines == SplitLines(s)
  IN  /\ Len(lines) >= 2
      /\ lines[1] = "SELECT id"
      /\ \A i \in 1..Len(lines) : lines[i] \in StatementLines

\* C39: for a raw output without a code fence that is a SELECT statement
\* spread over several lines, the whole statement (the raw text, trimmed) is
\* returned: no line is dropped, whatever keyword it begins with.
C39_MultiLineStatementReturnedWhole ==
  (Extracted /\ IsMultiLineStatement(vin)) =>
    /\ ~vout.threw
    /\ vout.sql = Trim(vin)

\* what holds instead: the lines of the statement that begin with the letter I
\* (INNER JOIN, IN) are left out
C39_StatementReturnedWithoutLinesInI ==
  (Extracted /\ IsMultiLineStatement(vin)) =>
    /\ ~vout.threw
    /\ vout.sql = JoinLines(SelectSeq(SplitLines(vin), LAMBDA line : CharAt(line, 1) # "I"))

\* the join of a two-line statement was dropped
C39_JoinLineDropped ==
  /\ Extracted
  /\ vin = "SELECT id\nINNER JOIN orders"
  /\ ~vout.threw
  /\ vout.sql = "SELECT id"

====
